---- MODULE Spec2Model ----
(***************************************************************************)
(* PSplot (src/psplot.py, class PsPlot): the calibration / measurement     *)
(* state machine of the plastic scanner plotter, its record log (the       *)
(* pandas DataFrame self.df), the table widget that mirrors it and the     *)
(* per material / per name series index of the 3-D plot.                   *)
(*                                                                         *)
(* Numbers.  A raw intensity is an integer number of device units.  Every  *)
(* value the program computes from raw intensities is a real of the form   *)
(* n / sqrt(r); it is kept exactly, as a sign and the reduced fraction     *)
(* p/q = n^2/r, so equal reals have equal representations.  numpy's        *)
(* 0/0 is the cell NaN; Python's None is the cell None.                    *)
(*                                                                         *)
(* Exceptions.  The program installs no excepthook and needs Python 3.9    *)
(* (dict | dict), hence PyQt5 5.15: an exception that leaves a slot makes  *)
(* PyQt call qFatal(), which aborts the process.  The state in which the   *)
(* process died is kept, with the exception recorded, and no handler runs  *)
(* after.                                                                  *)
(***************************************************************************)
EXTENDS Integers, Sequences, FiniteSets, TLC

VARIABLES
    serial,                             \* TRUE: a serial device is open; FALSE: self.serial is None
    baseline,                           \* self.baseline, an Option of a raw sample
    current_calibration_counter,
    total_calibration_counter,
    overwrite_no_callibration_warning,
    currently_storing,
    df,                                 \* self.df: sequence of rows, each a sequence of 29 cells
    table,                              \* self.table: sequence of rows, each a sequence of item texts
    tableRowLabels,
    threeDUniqueSeries,                 \* material -> name -> entry
    sample_materials,
    sample_names,
    sample_colors,
    twoDPlotHistoryDeque,
    threeDAxisVar,                      \* threeDAxisVarX, ...Y, ...Z as fields X, Y, Z
    threeDAxSelection,                  \* current text of threeDAxXSelection, ...Y..., ...Z...
    threeDPlotLegendButtons,            \* the legend buttons that are checked
    clearCalibrationBtn,                \* TRUE: the "Clear Calibration" button is enabled
    histogram,                          \* the Histogram widget: its buttons, bars and tick labels
    tableWidget,                        \* the Table widget: its items, row labels, counter and flag
    edits,                              \* number of user edits of a cell, an axis or the connection
    exception                           \* "none", or the unhandled exception that aborted the process

vars == <<serial, baseline, current_calibration_counter, total_calibration_counter,
          overwrite_no_callibration_warning, currently_storing, df, table,
          tableRowLabels, threeDUniqueSeries, sample_materials, sample_names,
          sample_colors, twoDPlotHistoryDeque, threeDAxisVar, threeDAxSelection,
          threeDPlotLegendButtons, clearCalibrationBtn, histogram, tableWidget,
          edits, exception>>

----------------------------------------------------------------------------
(* Bounds of the model *)

MaxRecords == 2         \* captures are taken while the record log is shorter than this
MaxEdits == 1           \* user edits of cells, axis controls and the connection per session
MaxCalibrations == 2    \* calibrations are taken while the lifetime counter is below this
MaxTableRows == 4       \* rows are appended to the Table widget while it has fewer rows

----------------------------------------------------------------------------
(* Hard coded settings, PsPlot.__init__ *)

wavelengths == <<940, 1050, 1200, 1300, 1450, 1550, 1650, 1720>>

NWavelengths == Len(wavelengths)

\* positions in self.df_header (1-based): Name, PlasticType, Color,
\* MeasurementType, DateTime, then the raw, the snv and the norm columns
df_header ==
    <<"Name", "PlasticType", "Color", "MeasurementType", "DateTime">>
    \o [i \in 1..NWavelengths |-> "nm"]
    \o [i \in 1..NWavelengths |-> "nm_snv"]
    \o [i \in 1..NWavelengths |-> "nm_norm"]

ColName == 1
ColPlasticType == 2
ColColor == 3
ColMeasurementType == 4
ColDateTime == 5
NMetaColumns == 5

default_sample_materials ==
    <<"PP", "PET", "PS", "HDPE", "LDPE", "PVC", "spectralon", "unknown">>

threeDPlotAllowedMaterials ==
    <<"PP", "PET", "PS", "HDPE", "LDPE", "PVC", "other", "unknown">>

\* an axis selector: the text "nm<wavelength>" followed by its suffixes
Axis(nm, sfx) == [nm |-> nm, sfx |-> sfx]

threeDAxisVarXDefault == Axis(1050, <<"_norm">>)

threeDAxisVarYDefualt == Axis(1450, <<"_norm">>)

threeDAxisVarZDefault == Axis(1650, <<"_norm">>)

twoDPlotHistoryMaxlen == 3

----------------------------------------------------------------------------
(* Cells: the values a DataFrame cell, a list element or a table item holds *)

RECURSIVE GCD(_, _)
GCD(a, b) == IF b = 0 THEN a ELSE GCD(b, a % b)

Abs(x) == IF x < 0 THEN -x ELSE x

Sign(x) == IF x < 0 THEN -1 ELSE IF x = 0 THEN 0 ELSE 1

\* the real n / sqrt(r), r > 0
Real(n, r) ==
    LET g == GCD(n * n, r)
    IN  [k |-> "f", sg |-> Sign(n), p |-> (n * n) \div g, q |-> r \div g, s |-> ""]

Float(x) == Real(x, 1)

NaN == [k |-> "nan", sg |-> 0, p |-> 0, q |-> 0, s |-> ""]

NoneCell == [k |-> "none", sg |-> 0, p |-> 0, q |-> 0, s |-> ""]

\* a Python str
Str(t) == [k |-> "str", sg |-> 0, p |-> 0, q |-> 0, s |-> t]

\* a datetime object, the value of datetime.now()
DateTimeNow == [k |-> "datetime", sg |-> 0, p |-> 0, q |-> 0, s |-> ""]

IsNone(c) == c.k = "none"

\* a Python list: the sequence with the elements f[1], ..., f[Len(f)]
List(f) == SubSeq(f, 1, Len(f))

Option(some, val) == [some |-> some, val |-> val]

None == Option(FALSE, <<>>)

Some(v) == Option(TRUE, v)

----------------------------------------------------------------------------
(* Pure functions of the module: SNV_transform, normalize, list_to_string *)

RECURSIVE Sum(_)
Sum(s) == IF s = <<>> THEN 0 ELSE Head(s) + Sum(Tail(s))

RECURSIVE SumSq(_)
SumSq(s) == IF s = <<>> THEN 0 ELSE Head(s) * Head(s) + SumSq(Tail(s))

RECURSIVE LCM(_)
LCM(s) ==
    IF s = <<>> THEN 1
    ELSE LET l == LCM(Tail(s)) IN (Head(s) * l) \div GCD(Head(s), l)

\* (data - mean(data)) / std(data) with std the population standard deviation:
\* element i is (N*y[i] - S) / sqrt(N*SumSq - S^2); a zero standard deviation
\* makes every element 0/0, which numpy evaluates to nan without raising;
\* an empty list comes back empty.
SNV_transform(ys) ==
    LET N == Len(ys)
        S == Sum(ys)
        rad == N * SumSq(ys) - S * S
    IN  List([i \in 1..N |-> IF rad = 0 THEN NaN ELSE Real(N * ys[i] - S, rad)])

\* numpy broadcasting of two one-dimensional arrays of lengths a and b
BroadcastOk(a, b) == a = b \/ a = 1 \/ b = 1

BroadcastLen(a, b) == IF a = 1 THEN b ELSE a

\* input_data / calibration_data, then SNV_transform.  Shapes that do not
\* broadcast raise ValueError.  A zero in the calibration data makes the
\* quotient hold inf or nan, and then every element of the result is nan.
\* Otherwise the quotient is scaled by the least common multiple of the
\* calibration data, which SNV_transform (scale invariant) cancels exactly.
normalize(input_data, calibration_data) ==
    LET a == Len(input_data)
        b == Len(calibration_data)
        n == BroadcastLen(a, b)
        x == List([i \in 1..n |-> IF a = 1 THEN input_data[1] ELSE input_data[i]])
        c == List([i \in 1..n |-> IF b = 1 THEN calibration_data[1] ELSE calibration_data[i]])
        l == LCM(c)
    IN  IF ~BroadcastOk(a, b) THEN [ok |-> FALSE, val |-> <<>>]
        ELSE IF \E i \in 1..n : c[i] = 0
             THEN [ok |-> TRUE, val |-> List([i \in 1..n |-> NaN])]
             ELSE [ok |-> TRUE,
                   val |-> SNV_transform(List([i \in 1..n |-> x[i] * (l \div c[i])]))]

DigitText == <<"0", "1", "2", "3", "4", "5", "6", "7", "8", "9">>

RECURSIVE IntText(_)
IntText(n) ==
    IF n < 10 THEN DigitText[n + 1] ELSE IntText(n \div 10) \o DigitText[(n % 10) + 1]

RECURSIVE ISqrt(_, _)
ISqrt(n, c) == IF (c + 1) * (c + 1) > n THEN c ELSE ISqrt(n, c + 1)

\* f"{i:.7f}" of one cell: a whole number prints as its digits and seven
\* zeros, nan prints as "nan"; the table only ever formats raw intensities.
Format7(c) ==
    IF c.k = "nan" THEN "nan"
    ELSE IF c.k = "f" /\ c.q = 1 /\ ISqrt(c.p, 0) * ISqrt(c.p, 0) = c.p
         THEN (IF c.sg < 0 THEN "-" ELSE "") \o IntText(ISqrt(c.p, 0)) \o ".0000000"
         ELSE "fraction"

\* list_to_string(data).split(): one text per element
list_to_string(data) == List([i \in 1..Len(data) |-> Format7(data[i])])

----------------------------------------------------------------------------
(* The acquisition protocol: PsPlot.getMeasurement *)

\* A response line is a sequence of characters.  The characters the lines of
\* the model are written with: the prompt, tab, CR, LF, digits, and "x" for
\* any character that is no part of a number.
Whitespace == {" ", "\t", "\r", "\n"}

Digits == {"0", "1", "2", "3", "4", "5", "6", "7", "8", "9"}

DigitValue(ch) == CHOOSE d \in 0..9 : DigitText[d + 1] = ch

RECURSIVE LStrip(_, _)
LStrip(s, chars) ==
    IF s # <<>> /\ Head(s) \in chars THEN LStrip(Tail(s), chars) ELSE s

RECURSIVE RStrip(_, _)
RStrip(s, chars) ==
    IF s # <<>> /\ s[Len(s)] \in chars THEN RStrip(SubSeq(s, 1, Len(s) - 1), chars) ELSE s

\* str.strip(chars)
Strip(s, chars) == RStrip(LStrip(s, chars), chars)

\* str.split(sep): the pieces between the separators, empty pieces included
RECURSIVE Split(_, _)
Split(s, sep) ==
    IF s = <<>> THEN << <<>> >>
    ELSE LET rest == Split(Tail(s), sep)
         IN  IF Head(s) = sep
             THEN << <<>> >> \o rest
             ELSE << <<Head(s)>> \o Head(rest) >> \o Tail(rest)

RECURSIVE DecimalValue(_, _)
DecimalValue(s, acc) ==
    IF s = <<>> THEN acc ELSE DecimalValue(Tail(s), 10 * acc + DigitValue(Head(s)))

\* float(x): surrounding whitespace is ignored, what is left must be a numeral
FloatParses(x) ==
    LET t == Strip(x, Whitespace)
    IN  t # <<>> /\ \A i \in 1..Len(t) : t[i] \in Digits

FloatValue(x) == DecimalValue(Strip(x, Whitespace), 0)

\* [x for x in data if x != ""]
NonEmpty(tokens) == SelectSeq(tokens, LAMBDA x : x # <<>>)

\* line.strip("> ").strip("\r\n").split("\t"), then float() of every non-empty
\* piece; float() raises ValueError on a piece that is no number
ParseLine(line) ==
    LET data == NonEmpty(Split(Strip(Strip(line, {">", " "}), {"\r", "\n"}), "\t"))
    IN  IF \A i \in 1..Len(data) : FloatParses(data[i])
        THEN [ok |-> TRUE, val |-> List([i \in 1..Len(data) |-> FloatValue(data[i])])]
        ELSE [ok |-> FALSE, val |-> <<>>]

RECURSIVE TabJoin(_)
TabJoin(tokens) ==
    IF tokens = <<>> THEN <<>>
    ELSE IF Len(tokens) = 1 THEN Head(tokens)
    ELSE Head(tokens) \o <<"\t">> \o TabJoin(Tail(tokens))

\* one numeral per intensity
RECURSIVE Numerals(_)
Numerals(sample) ==
    IF sample = <<>> THEN <<>>
    ELSE << <<DigitText[Head(sample) + 1]>> >> \o Numerals(Tail(sample))

\* "> " + tab separated pieces + CRLF, as the firmware answers "scan"
ResponseLine(pieces) == <<">", " ">> \o TabJoin(pieces) \o <<"\r", "\n">>

SampleA == <<1, 2, 3, 4, 1, 2, 3, 4>>

SampleB == <<2, 4, 6, 8, 2, 4, 6, 8>>          \* twice SampleA

LineA == ResponseLine(Numerals(SampleA))

LineB == ResponseLine(Numerals(SampleB))

\* SampleA with an empty piece (two tabs in a row)
LineEmptyPiece ==
    ResponseLine(<<Head(Numerals(SampleA)), <<>> >> \o Tail(Numerals(SampleA)))

LineTimeout == <<>>                             \* readline() timed out: b""

LineOneValue == <<">", " ", "5", "\r", "\n">>   \* a truncated answer

LineMalformed == <<">", " ", "1", "\t", "x", "\t", "3", "\r", "\n">>

\* the lines the serial device answers with
Lines == {LineA, LineB, LineEmptyPiece, LineTimeout, LineOneValue, LineMalformed}

\* the dummy intensities (0.2278, 0.2264, 0.2178, 0.2379, 0.2276, 0.2281,
\* 0.2298, 0.2264) in model units that keep their order
dummy_data == <<5, 4, 1, 9, 5, 6, 7, 4>>

\* the values random.uniform(0.0015, 0.0080) adds, one per wavelength
DummyNoise == {<<1, 1, 1, 1, 1, 1, 1, 1>>, <<1, 2, 1, 2, 1, 2, 1, 2>>}

\* a variant of getMeasurement that returns the dummy data as they are
getMeasurement_without_noise(w_serial) ==
    IF w_serial
    THEN {ParseLine(line) : line \in Lines}
    ELSE {[ok |-> TRUE, val |-> dummy_data]}

\* getMeasurement: the results it can return in the current state, one per
\* answer of the device (or per draw of the random noise)
getMeasurement(w_serial) ==
    IF w_serial
    THEN {ParseLine(line) : line \in Lines}
    ELSE {[ok |-> TRUE, val |-> List([i \in 1..Len(dummy_data) |-> dummy_data[i] + noise[i]])] :
            noise \in DummyNoise}

----------------------------------------------------------------------------
(* The program state as one value, so that a handler is a function from     *)
(* state to state.  exc is the exception in flight ("none" when there is    *)
(* none), calls collects the dialogs and collaborators the running handler  *)
(* has called, acquired is the sample getMeasurement returned to it, steps  *)
(* lists in order what the handler has done to the record log ("df"), to    *)
(* the series index ("series") and with the classifier ("predict"), and     *)
(* predicted is the data the classifier was given, and resets holds the     *)
(* material and id of every entry whose proxy was given a new array.        *)

World ==
    [serial |-> serial,
     baseline |-> baseline,
     current_calibration_counter |-> current_calibration_counter,
     total_calibration_counter |-> total_calibration_counter,
     overwrite_no_callibration_warning |-> overwrite_no_callibration_warning,
     currently_storing |-> currently_storing,
     df |-> df,
     table |-> table,
     tableRowLabels |-> tableRowLabels,
     threeDUniqueSeries |-> threeDUniqueSeries,
     sample_materials |-> sample_materials,
     sample_names |-> sample_names,
     sample_colors |-> sample_colors,
     twoDPlotHistoryDeque |-> twoDPlotHistoryDeque,
     threeDAxisVar |-> threeDAxisVar,
     threeDAxSelection |-> threeDAxSelection,
     threeDPlotLegendButtons |-> threeDPlotLegendButtons,
     clearCalibrationBtn |-> clearCalibrationBtn,
     histogram |-> histogram,
     tableWidget |-> tableWidget,
     exc |-> "none",
     acquired |-> None,
     calls |-> {},
     steps |-> <<>>,
     predicted |-> None,
     resets |-> {}]

Raise(w, kind) == IF w.exc # "none" THEN w ELSE [w EXCEPT !.exc = kind]

Called(w, what) == IF w.exc # "none" THEN w ELSE [w EXCEPT !.calls = @ \cup {what}]

Step(w, what) == IF w.exc # "none" THEN w ELSE [w EXCEPT !.steps = Append(@, what)]

----------------------------------------------------------------------------
(* The table and the record log *)

\* item(row, column).text(), rows and columns counted from 0 as in the code
ItemText(w, row, column) == w.table[row + 1][column + 1]

\* self.df.loc[label, self.df_header[column]] = text.  The labels of the
\* record log are 0, 1, 2, ...; a label past the end enlarges the frame by a
\* row that is NaN everywhere else.
DfLocSet(frame, label, column, cell) ==
    IF label < Len(frame)
    THEN [frame EXCEPT ![label + 1][column + 1] = cell]
    ELSE Append(frame, List([i \in 1..Len(df_header) |-> IF i = column + 1 THEN cell ELSE NaN]))

\* PsPlot.tableChanged(item), item given by its row, column and text
tableChanged(w, row, column, text) ==
    IF w.exc # "none" THEN w
    ELSE
    LET w1 == IF column = 0
              THEN [w EXCEPT !.sample_names = @ \cup {Str(text)}]
              ELSE IF column = 1 /\ Str(text) \notin w.sample_materials
                   \* self.sampleMaterialLayoutSelection does not exist
                   THEN Raise([w EXCEPT !.sample_materials = @ \cup {Str(text)}],
                              "AttributeError")
                   ELSE w
        dfcolumn == IF column >= 4 THEN column - 1 ELSE column
    IN  IF w1.exc = "none" /\ ~w1.currently_storing
        THEN [w1 EXCEPT !.df = DfLocSet(@, row, dfcolumn, Str(text))]
        ELSE w1

\* self.table.setItem(row, column, QTableWidgetItem(text)): the item is put
\* in place and the table emits itemChanged, which runs tableChanged
setItem(w, row, column, text) ==
    IF w.exc # "none" THEN w
    ELSE LET old == w.table[row + 1]
             new == IF column < Len(old)
                    THEN [old EXCEPT ![column + 1] = text]
                    ELSE Append(old, text)
         IN  tableChanged([w EXCEPT !.table[row + 1] = new],
                                     row, column, text)

RECURSIVE setItems(_, _, _, _)
\* for col, val in enumerate(texts, start=column): setItem(row, col, val)
setItems(w, row, column, texts) ==
    IF texts = <<>> THEN w
    ELSE setItems(setItem(w, row, column, Head(texts)), row, column + 1, Tail(texts))

RECURSIVE setBackgrounds(_, _, _)
\* item(row, column).setBackground(...) for every column from `column` on:
\* a changed item makes the table emit itemChanged again
setBackgrounds(w, row, column) ==
    IF w.exc # "none" \/ column >= Len(w.table[row + 1]) THEN w
    ELSE setBackgrounds(
            tableChanged(w, row, column, ItemText(w, row, column)),
            row, column + 1)

RowLabel(calibration, number) == [calibration |-> calibration, number |-> number]

\* addToTable, the row label: a calibration row is "C" and the number of the
\* calibration, and its material is overwritten with "spectralon"; any other
\* row is numbered without the calibrations
setRowLabel(w, nRows, calibrated_measurement) ==
    IF w.exc # "none" THEN w
    ELSE IF calibrated_measurement
    THEN setItem([w EXCEPT !.tableRowLabels =
                        Append(@, RowLabel(TRUE, w.total_calibration_counter))],
                 nRows, 1, "spectralon")
    ELSE [w EXCEPT !.tableRowLabels =
                Append(@, RowLabel(FALSE, nRows + 1 - w.total_calibration_counter))]

\* addToTable, the end: the items of a calibration row are coloured
setRowBackground(w, nRows, calibrated_measurement) ==
    IF calibrated_measurement THEN setBackgrounds(w, nRows, 0) ELSE w

\* PsPlot.addToTable; data is a list of cells
addToTable(w, data, name, material, color, calibrated_measurement) ==
    IF w.exc # "none" THEN w
    ELSE setRowBackground(
            setItems(
                setRowLabel(
                    setItems([w EXCEPT !.table = Append(@, <<>>)],
                             Len(w.table), 0, <<name, material, color>>),
                    Len(w.table), calibrated_measurement),
                Len(w.table), 3, list_to_string(data)),
            Len(w.table), calibrated_measurement)

\* a variant of addToDataframe that writes at the last label instead of a
\* new one: self.df.loc[len(self.df) - 1] = [...]
addToDataframe_at_last_label(w, data, data_snv, data_normalized, name, material, color, calibrated_measurement) ==
    IF w.exc # "none" THEN w
    ELSE
    LET measurement_type == IF calibrated_measurement THEN "calibration" ELSE "regular"
        row == <<Str(name), Str(material), Str(color), Str(measurement_type), DateTimeNow>>
               \o List([i \in 1..Len(data) |-> Float(data[i])]) \o data_snv \o data_normalized
    IN  IF Len(row) # Len(df_header)
        THEN Raise(w, "ValueError")
        ELSE Step([w EXCEPT !.df = IF @ = <<>> THEN <<row>> ELSE [@ EXCEPT ![Len(@)] = row]],
                  "df")

\* a variant of addToDataframe that takes a row of any length
addToDataframe_any_length(w, data, data_snv, data_normalized, name, material, color, calibrated_measurement) ==
    IF w.exc # "none" THEN w
    ELSE
    LET measurement_type == IF calibrated_measurement THEN "calibration" ELSE "regular"
        row == <<Str(name), Str(material), Str(color), Str(measurement_type), DateTimeNow>>
               \o List([i \in 1..Len(data) |-> Float(data[i])]) \o data_snv \o data_normalized
    IN  Step([w EXCEPT !.df = Append(@, row)], "df")

\* PsPlot.addToDataframe: a row whose length is not that of the header makes
\* pandas raise ValueError (cannot set a row with mismatched columns)
addToDataframe(w, data, data_snv, data_normalized, name, material, color, calibrated_measurement) ==
    IF w.exc # "none" THEN w
    ELSE
    LET measurement_type == IF calibrated_measurement THEN "calibration" ELSE "regular"
        row == <<Str(name), Str(material), Str(color), Str(measurement_type), DateTimeNow>>
               \o List([i \in 1..Len(data) |-> Float(data[i])]) \o data_snv \o data_normalized
    IN  IF Len(row) # Len(df_header)
        THEN Raise(w, "ValueError")
        ELSE Step([w EXCEPT !.df = Append(@, row)], "df")

----------------------------------------------------------------------------
(* The series index of the 3-D plot: self.threeDUniqueSeries.  A dict keeps *)
(* its keys in insertion order, so it is a sequence of (material, ids) and  *)
(* ids is a sequence of entries.  An entry holds its data rows (24 cells:   *)
(* raw, snv, norm); proxy says whether its "proxy" and "series" keys exist, *)
(* array is proxy.array(), shown whether the series is in the graph.        *)

Range(f) == {f[i] : i \in DOMAIN f}

RECURSIVE StrList(_)
\* the list of Python strs with the given texts
StrList(texts) ==
    IF texts = <<>> THEN <<>> ELSE <<Str(Head(texts))>> \o StrList(Tail(texts))

RECURSIVE EmptySeriesOf(_)
\* {material: {} for material in materials}
EmptySeriesOf(materials) ==
    IF materials = <<>> THEN <<>>
    ELSE <<[material |-> Head(materials), ids |-> <<>>]>> \o EmptySeriesOf(Tail(materials))

\* {i: {} for i in self.threeDPlotAllowedMaterials}
EmptySeries == EmptySeriesOf(StrList(threeDPlotAllowedMaterials))

NewEntry(id) == [id |-> id, data |-> <<>>, proxy |-> FALSE, array |-> <<>>, shown |-> FALSE]

\* position of a key in a dict, 0 when it is no key
KeyIndex(keys, key) ==
    IF \E i \in 1..Len(keys) : keys[i] = key
    THEN CHOOSE i \in 1..Len(keys) : keys[i] = key
    ELSE 0

Materials(series) == List([i \in 1..Len(series) |-> series[i].material])

Ids(ids) == List([i \in 1..Len(ids) |-> ids[i].id])

\* a variant of SeriesAppend that keeps one entry per material, the one of
\* the first name seen
SeriesAppend_by_material(series, material, name, row) ==
    LET s1 == IF KeyIndex(Materials(series), material) = 0
              THEN Append(series, [material |-> material, ids |-> <<>>])
              ELSE series
        mi == KeyIndex(Materials(s1), material)
        s2 == IF s1[mi].ids = <<>>
              THEN [s1 EXCEPT ![mi].ids = Append(@, NewEntry(name))]
              ELSE s1
    IN  [s2 EXCEPT ![mi].ids[1].data = Append(@, row)]

\* a variant of SeriesAppend that keeps only the newest row of an entry
SeriesAppend_newest_only(series, material, name, row) ==
    LET s1 == IF KeyIndex(Materials(series), material) = 0
              THEN Append(series, [material |-> material, ids |-> <<>>])
              ELSE series
        mi == KeyIndex(Materials(s1), material)
        s2 == IF KeyIndex(Ids(s1[mi].ids), name) = 0
              THEN [s1 EXCEPT ![mi].ids = Append(@, NewEntry(name))]
              ELSE s1
        ii == KeyIndex(Ids(s2[mi].ids), name)
    IN  [s2 EXCEPT ![mi].ids[ii].data = <<row>>]

\* self.threeDUniqueSeries[material][name]["data"].append(row), the two
\* levels created when missing
SeriesAppend(series, material, name, row) ==
    LET s1 == IF KeyIndex(Materials(series), material) = 0
              THEN Append(series, [material |-> material, ids |-> <<>>])
              ELSE series
        mi == KeyIndex(Materials(s1), material)
        s2 == IF KeyIndex(Ids(s1[mi].ids), name) = 0
              THEN [s1 EXCEPT ![mi].ids = Append(@, NewEntry(name))]
              ELSE s1
        ii == KeyIndex(Ids(s2[mi].ids), name)
    IN  [s2 EXCEPT ![mi].ids[ii].data = Append(@, row)]

\* a variant of data_normalized that computes the calibration record's
\* values as normalize(data, data)
data_normalized_by_division(w, data, calibrated_measurement) ==
    IF calibrated_measurement THEN normalize(data, data)
    ELSE IF w.baseline.some THEN normalize(data, w.baseline.val)
    ELSE [ok |-> TRUE, val |-> List([i \in 1..Len(data) |-> NoneCell])]

\* a variant of data_normalized that never looks at the baseline
data_normalized_without_baseline(w, data, calibrated_measurement) ==
    IF calibrated_measurement
    THEN [ok |-> TRUE, val |-> List([i \in 1..Len(data) |-> Float(1)])]
    ELSE [ok |-> TRUE, val |-> List([i \in 1..Len(data) |-> NoneCell])]

\* the data_normalized of storeMeasurement; ok is FALSE when normalize raises
data_normalized(w, data, calibrated_measurement) ==
    IF calibrated_measurement
    THEN [ok |-> TRUE, val |-> List([i \in 1..Len(data) |-> Float(1)])]
    ELSE IF w.baseline.some THEN normalize(data, w.baseline.val)
    ELSE [ok |-> TRUE, val |-> List([i \in 1..Len(data) |-> NoneCell])]

\* storeMeasurement, the series index: a regular record is appended to the
\* data of its material and name
addToSeries(w, row, name, material, calibrated_measurement) ==
    IF w.exc # "none" \/ calibrated_measurement THEN w
    ELSE Step([w EXCEPT !.threeDUniqueSeries =
                    SeriesAppend(@, Str(material), Str(name), row)],
              "series")

\* storeMeasurement, the end: self.currently_storing = False
doneStoring(w) ==
    IF w.exc # "none" THEN w ELSE [w EXCEPT !.currently_storing = FALSE]

\* storeMeasurement from the computed lists on: raw is the sample as cells,
\* normalized the result of data_normalized
storeLists(w, data, raw, data_snv, normalized, name, material, color, calibrated_measurement) ==
    IF ~normalized.ok THEN Raise(w, "ValueError")
    ELSE doneStoring(
            addToSeries(
                addToTable(
                    addToDataframe([w EXCEPT !.currently_storing = TRUE],
                                   data, data_snv, normalized.val,
                                   name, material, color, calibrated_measurement),
                    raw, name, material, color, calibrated_measurement),
                raw \o data_snv \o normalized.val, name, material,
                calibrated_measurement))

\* PsPlot.storeMeasurement
storeMeasurement(w, data, name, material, color, calibrated_measurement) ==
    IF w.exc # "none" THEN w
    ELSE storeLists(w, data, List([i \in 1..Len(data) |-> Float(data[i])]),
                    SNV_transform(data), data_normalized(w, data, calibrated_measurement),
                    name, material, color, calibrated_measurement)

\* PsPlot.plotTwoD(data): normalize raises ValueError on shapes that do not
\* broadcast; what it draws is not kept
plotTwoD(w, data) ==
    IF w.exc # "none" THEN w
    ELSE
    LET b == w.baseline
        historyOk == \A i \in 1..Len(w.twoDPlotHistoryDeque) :
                        b.some => BroadcastOk(Len(w.twoDPlotHistoryDeque[i]), Len(b.val))
        appended == Append(w.twoDPlotHistoryDeque, data.val)
        w1 == IF data.some
              THEN [w EXCEPT !.twoDPlotHistoryDeque =
                        IF Len(appended) > twoDPlotHistoryMaxlen THEN Tail(appended)
                        ELSE appended]
              ELSE w
    IN  IF ~historyOk THEN Raise(w, "ValueError")
        ELSE IF data.some /\ b.some /\ ~BroadcastOk(Len(data.val), Len(b.val))
             THEN Raise(w1, "ValueError")
             ELSE w1

\* self.prediction_options: the columns nm<wavelength> of a row
prediction_options(row) == SubSeq(row, NMetaColumns + 1, NMetaColumns + NWavelengths)

\* a variant of plotHistogram that gives the classifier the first row
plotHistogram_first_row(w) ==
    IF w.exc # "none" THEN w
    ELSE IF Len(w.df) = 0 THEN Raise(w, "KeyError")
    ELSE Step([Called(w, "predict_proba") EXCEPT
                    !.predicted = Some(prediction_options(w.df[1]))],
              "predict")

\* PsPlot.plotHistogram(): the classifier is given the prediction_options of
\* the row with the label len(self.df) - 1
plotHistogram(w) ==
    IF w.exc # "none" THEN w
    ELSE IF Len(w.df) = 0 THEN Raise(w, "KeyError")
    ELSE Step([Called(w, "predict_proba") EXCEPT
                    !.predicted = Some(prediction_options(w.df[Len(w.df)]))],
              "predict")

----------------------------------------------------------------------------
(* The classification view: class Histogram.  A probability of the        *)
(* classifier is a number of thousandths, so that probability * 100 is    *)
(* the tenth part of it.                                                   *)

\* self.clf.classes_: the labels the classifier was fitted with, ascending
clf_classes == <<"HDPE", "PET", "PP">>

\* the place of a label in the ascending order of the labels
ClassIndex(name) == CHOOSE i \in DOMAIN clf_classes : clf_classes[i] = name

\* seq[::-1]
Reversed(seq) == List([i \in 1..Len(seq) |-> seq[Len(seq) + 1 - i]])

\* int(x) of a non-negative x given in tenths: the fraction is cut off
int(tenths) == tenths \div 10

\* [int(x) for x in list(prediction.values())[::-1]], prediction being
\* probability * 100 for each label of classes_
widths(proba) == Reversed(List([i \in 1..Len(proba) |-> int(proba[i])]))

\* zip(widths, names)
zip(ws, names) == List([i \in 1..Len(ws) |-> <<ws[i], names[i]>>])

\* the order of Python on tuples (width, label)
TupleLess(a, b) == a[1] < b[1] \/ (a[1] = b[1] /\ ClassIndex(a[2]) < ClassIndex(b[2]))

RECURSIVE sortedSet(_)
sortedSet(tuples) ==
    IF tuples = {} THEN <<>>
    ELSE LET least == CHOOSE a \in tuples : \A b \in tuples \ {a} : TupleLess(a, b)
         IN  <<least>> \o sortedSet(tuples \ {least})

\* sorted(tuples): no two of the tuples are equal, their labels differ
sorted(tuples) == sortedSet(Range(tuples))

\* the widget after Histogram.__init__
Histogram_init ==
    [disableBtn |-> FALSE,
     sortBtn |-> "default",
     widths |-> List([i \in 1..Len(clf_classes) |-> 0]),
     ticks |-> Reversed(clf_classes)]

\* Histogram.clear()
Histogram_clear(w) ==
    IF w.exc # "none" THEN w
    ELSE [w EXCEPT !.histogram.widths = List([i \in 1..Len(clf_classes) |-> 0])]

\* a variant of Histogram.plot() that does not look at the disable box
Histogram_plot_when_disabled(w, proba) ==
    IF w.exc # "none" THEN w
    ELSE IF Len(w.df) = 0 THEN Raise(w, "KeyError")
    ELSE LET w1 == [Called(w, "Histogram.predict_proba") EXCEPT
                        !.predicted = Some(prediction_options(w.df[Len(w.df)]))]
             tuples == sorted(zip(widths(proba), Reversed(clf_classes)))
         IN  IF w.histogram.sortBtn = "default"
             THEN [w1 EXCEPT !.histogram.widths = widths(proba),
                             !.histogram.ticks = Reversed(clf_classes)]
             ELSE [w1 EXCEPT !.histogram.widths = List([i \in 1..Len(tuples) |-> tuples[i][1]]),
                             !.histogram.ticks = List([i \in 1..Len(tuples) |-> tuples[i][2]])]

\* Histogram.plot(); proba is what predict_proba returns for the newest row
Histogram_plot(w, proba) ==
    IF w.exc # "none" THEN w
    ELSE IF w.histogram.disableBtn THEN w
    ELSE IF Len(w.df) = 0 THEN Raise(w, "KeyError")
    ELSE LET w1 == [Called(w, "Histogram.predict_proba") EXCEPT
                        !.predicted = Some(prediction_options(w.df[Len(w.df)]))]
             tuples == sorted(zip(widths(proba), Reversed(clf_classes)))
         IN  IF w.histogram.sortBtn = "default"
             THEN [w1 EXCEPT !.histogram.widths = widths(proba),
                             !.histogram.ticks = Reversed(clf_classes)]
             ELSE [w1 EXCEPT !.histogram.widths = List([i \in 1..Len(tuples) |-> tuples[i][1]]),
                             !.histogram.ticks = List([i \in 1..Len(tuples) |-> tuples[i][2]])]

\* Histogram._sorting_selection_changed(), after the click has checked button
Histogram_sorting_selection_changed(w, button, proba) ==
    Histogram_plot([w EXCEPT !.histogram.sortBtn = button], proba)

\* Histogram._disable(), after the click has toggled the check box
Histogram_disable(w, proba) ==
    LET w1 == [w EXCEPT !.histogram.disableBtn = ~@]
    IN  IF w1.histogram.disableBtn THEN Histogram_clear(w1) ELSE Histogram_plot(w1, proba)

----------------------------------------------------------------------------
(* The table widget: class Table.  items holds the name, material and     *)
(* color item of every row; the items of the value columns are not kept.  *)

\* the widget after Table.__init__
Table_init ==
    [items |-> <<>>, _row_labels |-> <<>>, _calibration_counter |-> 0,
     _currently_appending |-> FALSE]

\* Table.append(data, name, material, color, calibrated_measurement)
Table_append(w, name, material, color, calibrated_measurement) ==
    IF w.exc # "none" THEN w
    ELSE LET t == w.tableWidget
             n_rows == Len(t.items)
         IN  IF calibrated_measurement
             THEN [w EXCEPT !.tableWidget =
                        [items |-> Append(t.items, <<name, "spectralon", color>>),
                         _row_labels |-> Append(t._row_labels,
                                                RowLabel(TRUE, t._calibration_counter + 1)),
                         _calibration_counter |-> t._calibration_counter + 1,
                         _currently_appending |-> FALSE]]
             ELSE [w EXCEPT !.tableWidget =
                        [items |-> Append(t.items, <<name, material, color>>),
                         _row_labels |-> Append(t._row_labels,
                                                RowLabel(FALSE, n_rows + 1 - t._calibration_counter)),
                         _calibration_counter |-> t._calibration_counter,
                         _currently_appending |-> FALSE]]

\* Table.clear()
Table_clear(w) ==
    IF w.exc # "none" THEN w
    ELSE [w EXCEPT !.tableWidget.items = <<>>, !.tableWidget._row_labels = <<>>]

----------------------------------------------------------------------------
(* The 3-D plot: PsPlot.plotThreeD and the slots of the axis combo boxes *)

\* self.threeDAxisOptions: every wavelength, plain, with "_snv", with "_norm"
IsAxisOption(a) ==
    /\ a.nm \in Range(wavelengths)
    /\ a.sfx \in {<<>>, <<"_snv">>, <<"_norm">>}

\* self.threeDAxisOptionsIndexMap[a], as a position (from 1) in a data row
AxisIndex(a) ==
    KeyIndex(wavelengths, a.nm)
    + (IF a.sfx = <<>> THEN 0 ELSE IF a.sfx = <<"_snv">> THEN 1 ELSE 2) * NWavelengths

RECURSIVE RStripNorm(_)
\* text.rstrip("_norm"): the characters _, n, o, r, m are taken off the end.
\* A "_norm" suffix goes as a whole; "_snv" ends in v and a wavelength in a
\* digit, and both stop the stripping.
RStripNorm(sfx) ==
    IF sfx # <<>> /\ sfx[Len(sfx)] = "_norm"
    THEN RStripNorm(SubSeq(sfx, 1, Len(sfx) - 1))
    ELSE sfx

\* a.rstrip("_norm") + "_snv"
SwitchToSnv(a) == Axis(a.nm, Append(RStripNorm(a.sfx), "_snv"))

\* a variant of MaterialName without the test material == ""
MaterialName_without_unknown(material) ==
    IF material.k = "str" /\ material.s \in Range(threeDPlotAllowedMaterials)
    THEN material.s
    ELSE "other"

\* the legend button a material is drawn under
MaterialName(material) ==
    IF material.k = "str" /\ material.s \in Range(threeDPlotAllowedMaterials)
    THEN material.s
    ELSE IF material = Str("") THEN "unknown" ELSE "other"

NoneOnAxes(row, ix, iy, iz) == IsNone(row[ix]) \/ IsNone(row[iy]) \/ IsNone(row[iz])

RECURSIVE plotThreeD(_, _)
RECURSIVE plotThreeDEntries(_, _, _, _, _, _, _)
RECURSIVE switchAxes(_, _, _, _, _)
RECURSIVE setCurrentText(_, _, _)

\* threeDAxXChanged, threeDAxYChanged, threeDAxZChanged
threeDAxChanged(w, axis, name) ==
    plotThreeD([w EXCEPT !.threeDAxisVar[axis] = name], TRUE)

\* QComboBox.setCurrentText on a combo box that is not editable: a text that
\* is an item and is not the current one becomes current, and
\* currentTextChanged runs the slot; any other text changes nothing
setCurrentText(w, axis, text) ==
    IF w.exc # "none" THEN w
    ELSE IF IsAxisOption(text) /\ text # w.threeDAxSelection[axis]
         THEN threeDAxChanged([w EXCEPT !.threeDAxSelection[axis] = text],
                                         axis, text)
         ELSE w

\* self.threeDAx<axis>Selection.setCurrentText(self.threeDAxisVar<axis>)
setCurrentAxis(w, axis) ==
    IF w.exc # "none" THEN w ELSE setCurrentText(w, axis, w.threeDAxisVar[axis])

\* the loop over the data of an entry that holds a None on an axis: every
\* row with a None rewrites the three selectors and sets the combo boxes
switchAxes(w, rows, ix, iy, iz) ==
    IF w.exc # "none" \/ rows = <<>> THEN w
    ELSE IF ~NoneOnAxes(Head(rows), ix, iy, iz)
         THEN switchAxes(w, Tail(rows), ix, iy, iz)
         ELSE switchAxes(
                setCurrentAxis(
                    setCurrentAxis(
                        setCurrentAxis(
                            [w EXCEPT !.threeDAxisVar =
                                [X |-> SwitchToSnv(@.X), Y |-> SwitchToSnv(@.Y),
                                 Z |-> SwitchToSnv(@.Z)]],
                            "X"),
                        "Y"),
                    "Z"),
                Tail(rows), ix, iy, iz)

\* a variant of dataArray that fills the array from the newest row back
dataArray_newest_first(data, ix, iy, iz) ==
    List([r \in 1..Len(data) |->
            <<data[Len(data) + 1 - r][ix], data[Len(data) + 1 - r][iy],
              data[Len(data) + 1 - r][iz]>>])

\* dataArray = [QScatterDataItem(QVector3D(data[indexX], data[indexY],
\* data[indexZ])) for data in self.threeDUniqueSeries[material][id]["data"]]
dataArray(data, ix, iy, iz) ==
    List([r \in 1..Len(data) |-> <<data[r][ix], data[r][iy], data[r][iz]>>])

\* a variant of arrayIsStale that does not look at axis_changed
arrayIsStale_without_axis_changed(e, axis_changed) == Len(e.data) > Len(e.array)

\* len(self.threeDUniqueSeries[material][id]["data"]) > len(proxy.array())
\* or axis_changed
arrayIsStale(e, axis_changed) == Len(e.data) > Len(e.array) \/ axis_changed

\* proxy.resetArray(dataArray), and the series added to the graph when it is
\* not in it
resetArray(w, mi, ii, ix, iy, iz) ==
    [w EXCEPT !.threeDUniqueSeries[mi].ids[ii].array =
                    dataArray(w.threeDUniqueSeries[mi].ids[ii].data, ix, iy, iz),
              !.threeDUniqueSeries[mi].ids[ii].shown = TRUE,
              !.resets = @ \cup {<<w.threeDUniqueSeries[mi].material,
                                   w.threeDUniqueSeries[mi].ids[ii].id>>}]

\* the two nested loops of plotThreeD, from entry ii of material mi on
plotThreeDEntries(w, mi, ii, axis_changed, ix, iy, iz) ==
    IF w.exc # "none" \/ mi > Len(w.threeDUniqueSeries) THEN w
    ELSE IF ii > Len(w.threeDUniqueSeries[mi].ids)
    THEN plotThreeDEntries(w, mi + 1, 1, axis_changed, ix, iy, iz)
    ELSE
    LET material_name == MaterialName(w.threeDUniqueSeries[mi].material)
        e0 == w.threeDUniqueSeries[mi].ids[ii]
        e1 == IF e0.proxy THEN e0
              ELSE [e0 EXCEPT !.proxy = TRUE, !.array = <<>>, !.shown = TRUE]
        stale == arrayIsStale(e1, axis_changed)
        holdsNone == \E r \in 1..Len(e1.data) : NoneOnAxes(e1.data[r], ix, iy, iz)
        e2 == IF material_name \notin w.threeDPlotLegendButtons
              THEN [e1 EXCEPT !.shown = FALSE]
              ELSE e1
        w1 == [w EXCEPT !.threeDUniqueSeries[mi].ids[ii] = e2]
    IN  IF material_name \in w.threeDPlotLegendButtons /\ stale /\ holdsNone
        THEN plotThreeD(switchAxes(w1, e1.data, ix, iy, iz), TRUE)
        ELSE IF material_name \in w.threeDPlotLegendButtons /\ stale
        THEN plotThreeDEntries(resetArray(w1, mi, ii, ix, iy, iz),
                               mi, ii + 1, axis_changed, ix, iy, iz)
        ELSE plotThreeDEntries(w1, mi, ii + 1, axis_changed, ix, iy, iz)

\* PsPlot.plotThreeD(axis_changed): a selector that is no key of
\* threeDAxisOptionsIndexMap raises KeyError
plotThreeD(w, axis_changed) ==
    IF w.exc # "none" THEN w
    ELSE IF ~(IsAxisOption(w.threeDAxisVar.X) /\ IsAxisOption(w.threeDAxisVar.Y)
              /\ IsAxisOption(w.threeDAxisVar.Z))
    THEN Raise(w, "KeyError")
    ELSE plotThreeDEntries(w, 1, 1, axis_changed, AxisIndex(w.threeDAxisVar.X),
                           AxisIndex(w.threeDAxisVar.Y), AxisIndex(w.threeDAxisVar.Z))

\* a click on the legend button of name: the button changes its checked
\* state and clicked(checked) runs plotThreeD with checked as axis_changed
legendButtonClicked(w, name) ==
    IF w.exc # "none" THEN w
    ELSE IF name \in w.threeDPlotLegendButtons
    THEN plotThreeD([w EXCEPT !.threeDPlotLegendButtons = @ \ {name}], FALSE)
    ELSE plotThreeD([w EXCEPT !.threeDPlotLegendButtons = @ \cup {name}], TRUE)

\* PsPlot.threeDDefaultAxes
threeDDefaultAxes(w) ==
    setCurrentText(
        setCurrentText(
            setCurrentText(w, "X", threeDAxisVarXDefault),
            "Y", threeDAxisVarYDefualt),
        "Z", threeDAxisVarZDefault)

RECURSIVE removeAllSeries(_, _, _)
\* the loop of threeDPlotClear: an entry without a "series" key raises KeyError
removeAllSeries(w, mi, ii) ==
    IF w.exc # "none" \/ mi > Len(w.threeDUniqueSeries) THEN w
    ELSE IF ii > Len(w.threeDUniqueSeries[mi].ids) THEN removeAllSeries(w, mi + 1, 1)
    ELSE IF ~w.threeDUniqueSeries[mi].ids[ii].proxy THEN Raise(w, "KeyError")
    ELSE removeAllSeries([w EXCEPT !.threeDUniqueSeries[mi].ids[ii].shown = FALSE],
                         mi, ii + 1)

\* self.threeDUniqueSeries = {i: {} for i in self.threeDPlotAllowedMaterials}
resetSeries(w) ==
    IF w.exc # "none" THEN w ELSE [w EXCEPT !.threeDUniqueSeries = EmptySeries]

\* a variant of threeDPlotClear that takes the series out of the graph and
\* keeps the series index
threeDPlotClear_without_reset(w) == removeAllSeries(w, 1, 1)

\* PsPlot.threeDPlotClear
threeDPlotClear(w) == resetSeries(removeAllSeries(w, 1, 1))

\* a variant of twoDPlotClear that also drops the baseline
twoDPlotClear_and_baseline(w) ==
    IF w.exc # "none" THEN w
    ELSE plotTwoD([w EXCEPT !.twoDPlotHistoryDeque = <<>>, !.baseline = None], None)

\* PsPlot.twoDPlotClear
twoDPlotClear(w) ==
    IF w.exc # "none" THEN w
    ELSE plotTwoD([w EXCEPT !.twoDPlotHistoryDeque = <<>>], None)

----------------------------------------------------------------------------
(* The handlers *)

\* data = self.getMeasurement() with the result acq: float() raising
\* ValueError leaves the handler before the assignment
Acquire(w, acq) ==
    IF w.exc # "none" THEN w
    ELSE IF ~acq.ok THEN Raise(Called(w, "getMeasurement"), "ValueError")
    ELSE [Called(w, "getMeasurement") EXCEPT !.acquired = Some(acq.val)]

\* a variant of clearCalibration that also restarts the session counter
clearCalibration_and_counter(w) ==
    IF w.exc # "none" THEN w
    ELSE [w EXCEPT !.baseline = None, !.twoDPlotHistoryDeque = <<>>,
                   !.current_calibration_counter = 0]

\* PsPlot.clearCalibration
clearCalibration(w) ==
    IF w.exc # "none" THEN w
    ELSE [w EXCEPT !.baseline = None, !.twoDPlotHistoryDeque = <<>>]

\* a variant of setBaseline that does not count the calibration in the
\* lifetime counter
setBaseline_without_total(w, data) ==
    IF w.exc # "none" THEN w
    ELSE [w EXCEPT !.baseline = Some(data),
                   !.current_calibration_counter = @ + 1]

\* calibrate: self.baseline = <the sample>, and the two counters += 1
setBaseline(w, data) ==
    IF w.exc # "none" THEN w
    ELSE [w EXCEPT !.baseline = Some(data),
                   !.current_calibration_counter = @ + 1,
                   !.total_calibration_counter = @ + 1]

\* a variant of clearHistory that also asks the classifier
clearHistory_and_predict(w) ==
    IF w.exc # "none" THEN w
    ELSE plotHistogram([w EXCEPT !.twoDPlotHistoryDeque = <<>>])

\* self.twoDPlotHistoryDeque.clear()
clearHistory(w) ==
    IF w.exc # "none" THEN w ELSE [w EXCEPT !.twoDPlotHistoryDeque = <<>>]

\* PsPlot.calibrate; button is the answer to "Is the spectralon sample on
\* the sensor?"
calibrate(w, button, acq) ==
    IF ~button THEN Called(w, "question")
    ELSE plotTwoD(
            clearHistory(
                storeMeasurement(
                    setBaseline(
                        Acquire([Called(w, "question") EXCEPT !.clearCalibrationBtn =
                                    @ \/ w.current_calibration_counter = 0], acq),
                        acq.val),
                    acq.val, "", "unknown", "", TRUE)),
            None)

\* PsPlot.addMeasurement; the three texts are those of the combo boxes,
\* already without trailing whitespace
addMeasurement(w, data, name, material, color) ==
    IF w.exc # "none" THEN w
    ELSE storeMeasurement(
            [w EXCEPT !.sample_materials = @ \cup {Str(material)},
                      !.sample_names = @ \cup {Str(name)},
                      !.sample_colors = @ \cup {Str(color)}],
            data, name, material, color, FALSE)

\* a variant of NoCalibrationGuard that does not look at the override
NoCalibrationGuard_without_override(w) == w.current_calibration_counter = 0

\* the condition under which takeRegularMeasurement shows the "No
\* calibration is present" warning
NoCalibrationGuard(w) ==
    w.current_calibration_counter = 0 /\ w.overwrite_no_callibration_warning = FALSE

\* PsPlot.takeRegularMeasurement; button is the answer to the "No
\* calibration is present" warning, when it is shown
takeRegularMeasurement(w, button, acq, name, material, color) ==
    LET warn == NoCalibrationGuard(w)
        w0 == IF warn THEN Called(w, "NoCalibrationWarning") ELSE w
        w1 == Acquire(IF warn THEN [w0 EXCEPT !.overwrite_no_callibration_warning = TRUE]
                      ELSE w0, acq)
        w2 == addMeasurement(w1, acq.val, name, material, color)
        w3 == plotTwoD(w2, Some(SNV_transform(acq.val)))
        w4 == plotThreeD(w3, FALSE)
    IN  IF warn /\ ~button THEN w0
        ELSE plotHistogram(w4)

RECURSIVE Unique(_)
\* Series.unique(): the values in order of first appearance
Unique(s) ==
    IF s = <<>> THEN <<>>
    ELSE LET u == Unique(SubSeq(s, 1, Len(s) - 1))
         IN  IF s[Len(s)] \in Range(u) THEN u ELSE Append(u, s[Len(s)])

Column(frame, c) == List([i \in 1..Len(frame) |-> frame[i][c]])

RECURSIVE loadSeries(_, _)
\* the loop of loadDataset that fills threeDUniqueSeries from the rows
loadSeries(series, rows) ==
    IF rows = <<>> THEN series
    ELSE loadSeries(
            SeriesAppend(series, Head(rows)[ColPlasticType], Head(rows)[ColName],
                         SubSeq(Head(rows), NMetaColumns + 1, Len(Head(rows)))),
            Tail(rows))

\* row[header] if isinstance(row[header], str) else ""
TextOrEmpty(cell) == IF cell.k = "str" THEN cell.s ELSE ""

RECURSIVE loadTable(_, _)
\* the loop of loadDataset that writes the rows to the table
loadTable(w, rows) ==
    IF w.exc # "none" \/ rows = <<>> THEN w
    ELSE
    LET row == Head(rows)
        calibration == row[ColMeasurementType] = Str("calibration")
        w1 == IF calibration THEN [w EXCEPT !.total_calibration_counter = @ + 1] ELSE w
    IN  loadTable(
            addToTable(w1, SubSeq(row, NMetaColumns + 1, NMetaColumns + NWavelengths),
                       TextOrEmpty(row[ColName]), TextOrEmpty(row[ColPlasticType]),
                       TextOrEmpty(row[ColColor]), calibration),
            Tail(rows))

\* loadDataset: threeDUniqueSeries is rebuilt from the rows of the file
loadAllSeries(w, rows) ==
    IF w.exc # "none" THEN w
    ELSE [w EXCEPT !.threeDUniqueSeries =
                loadSeries(EmptySeriesOf(Unique(Column(rows, ColPlasticType))), rows)]

\* loadDataset, "reset variables": the names, colors and materials are those
\* of the file, the counters restart and the calibration is cleared
resetVariables(w, rows) ==
    IF w.exc # "none" THEN w
    ELSE clearCalibration(
            [w EXCEPT !.sample_names = Range(Column(rows, ColName)),
                      !.sample_colors = Range(Column(rows, ColColor)),
                      !.sample_materials =
                            {Str(m) : m \in Range(default_sample_materials)}
                            \cup Range(Column(rows, ColPlasticType)),
                      !.current_calibration_counter = 0,
                      !.total_calibration_counter = 0])

\* loadDataset: the table is emptied and filled with the rows of the file
resetTable(w, rows) ==
    IF w.exc # "none" THEN w
    ELSE loadTable([w EXCEPT !.table = <<>>, !.tableRowLabels = <<>>], rows)

\* loadDataset once the file is read and its columns are those of df_header
loadRows(w, rows) ==
    plotThreeD(
        plotTwoD(
            resetTable(
                resetVariables(
                    twoDPlotClear(
                        loadAllSeries(threeDPlotClear([w EXCEPT !.df = rows]), rows)),
                    rows),
                rows),
            None),
        FALSE)

\* a variant of loadDataset that does not compare the columns
loadDataset_without_column_check(w, new_df, sure, really) ==
    IF Len(w.df) > 0 /\ ~(sure /\ really) THEN Called(w, "_loadDatasetWarning")
    ELSE loadRows(Called(w, "read_csv"), new_df.rows)

\* a variant of loadDataset that asks the first warning only
loadDataset_single_warning(w, new_df, sure, really) ==
    IF Len(w.df) > 0 /\ ~sure THEN Called(w, "_loadDatasetWarning")
    ELSE IF new_df.columns # df_header THEN Called(Called(w, "read_csv"), "critical")
    ELSE loadRows(Called(w, "read_csv"), new_df.rows)

\* PsPlot.loadDataset; new_df is what pd.read_csv made of the file, sure and
\* really are the answers to the two overwrite warnings
loadDataset(w, new_df, sure, really) ==
    IF Len(w.df) > 0 /\ ~(sure /\ really) THEN Called(w, "_loadDatasetWarning")
    ELSE IF new_df.columns # df_header THEN Called(Called(w, "read_csv"), "critical")
    ELSE loadRows(Called(w, "read_csv"), new_df.rows)

\* the user finishes editing item (row, column): Qt sets the text and emits
\* itemChanged
editItem(w, row, column, text) ==
    tableChanged([w EXCEPT !.table[row + 1][column + 1] = text], row, column, text)

----------------------------------------------------------------------------
(* Inputs: what the user types and the files the user loads *)

SampleNames == {"s1"}                   \* texts of sampleNameSelection

SampleMaterials == {"unknown", "PET"}   \* texts of sampleMaterialSelection

SampleColors == {""}                    \* texts of sampleColorSelection

\* what the user types into a cell of column 0, 1, 2 of the table
EditTexts(column) ==
    IF column = 0 THEN {"s2"} ELSE IF column = 1 THEN {"PVC", "foo"} ELSE {"blue"}

\* the legend buttons the user clicks
LegendTexts == {"PET", "unknown"}

\* the items of the axis combo boxes the user picks
AxisTexts == {Axis(1050, <<"_norm">>), Axis(1050, <<>>)}

\* a cell after DataFrame.to_csv and pd.read_csv with the dtypes of
\* df_header_dtypes: an empty text and a None are read back as NaN, a
\* datetime as its text
CsvCell(c) ==
    IF c = Str("") \/ c.k = "none" THEN NaN
    ELSE IF c.k = "datetime" THEN Str("2023-01-17 12:00:00")
    ELSE c

RecordRow(name, material, color, measurement_type, data, normalized) ==
    <<Str(name), Str(material), Str(color), Str(measurement_type), DateTimeNow>>
    \o List([i \in 1..Len(data) |-> Float(data[i])]) \o SNV_transform(data) \o normalized

RECURSIVE CsvRow(_)
CsvRow(row) == IF row = <<>> THEN <<>> ELSE <<CsvCell(Head(row))>> \o CsvRow(Tail(row))

\* a file exported after one regular capture without calibration
DatasetRegular ==
    [columns |-> df_header,
     rows |-> <<CsvRow(RecordRow("s2", "PET", "", "regular", SampleB,
                                 List([i \in 1..NWavelengths |-> NoneCell])))>>]

\* a file exported after one calibration
DatasetCalibration ==
    [columns |-> df_header,
     rows |-> <<CsvRow(RecordRow("", "unknown", "", "calibration", SampleA,
                                 List([i \in 1..NWavelengths |-> Float(1)])))>>]

\* a file of an older version, without the snv columns
DatasetOtherColumns ==
    [columns |-> SubSeq(df_header, 1, NMetaColumns + NWavelengths)
                 \o SubSeq(df_header, NMetaColumns + 2 * NWavelengths + 1, Len(df_header)),
     rows |-> <<>>]

Datasets == {DatasetRegular, DatasetCalibration, DatasetOtherColumns}

----------------------------------------------------------------------------
(* The state machine *)

crashed == exception # "none"

Init ==
    /\ serial \in BOOLEAN
    /\ baseline = None
    /\ current_calibration_counter = 0
    /\ total_calibration_counter = 0
    /\ overwrite_no_callibration_warning = FALSE
    /\ currently_storing = FALSE
    /\ df = <<>>
    /\ table = <<>>
    /\ tableRowLabels = <<>>
    /\ threeDUniqueSeries = EmptySeries
    /\ sample_materials = {Str(m) : m \in Range(default_sample_materials)}
    /\ sample_names = {Str("")}
    /\ sample_colors = {Str("")}
    /\ twoDPlotHistoryDeque = <<>>
    /\ threeDAxisVar = [X |-> threeDAxisVarXDefault, Y |-> threeDAxisVarYDefualt,
                        Z |-> threeDAxisVarZDefault]
    /\ threeDAxSelection = [X |-> threeDAxisVarXDefault, Y |-> threeDAxisVarYDefualt,
                            Z |-> threeDAxisVarZDefault]
    /\ threeDPlotLegendButtons = Range(threeDPlotAllowedMaterials)
    /\ clearCalibrationBtn = FALSE
    /\ histogram = Histogram_init
    /\ tableWidget = Table_init
    /\ edits = 0
    /\ exception = "none"

\* a handler has run and left the state w
Finish(w) ==
    /\ serial' = w.serial
    /\ baseline' = w.baseline
    /\ current_calibration_counter' = w.current_calibration_counter
    /\ total_calibration_counter' = w.total_calibration_counter
    /\ overwrite_no_callibration_warning' = w.overwrite_no_callibration_warning
    /\ currently_storing' = w.currently_storing
    /\ df' = w.df
    /\ table' = w.table
    /\ tableRowLabels' = w.tableRowLabels
    /\ threeDUniqueSeries' = w.threeDUniqueSeries
    /\ sample_materials' = w.sample_materials
    /\ sample_names' = w.sample_names
    /\ sample_colors' = w.sample_colors
    /\ twoDPlotHistoryDeque' = w.twoDPlotHistoryDeque
    /\ threeDAxisVar' = w.threeDAxisVar
    /\ threeDAxSelection' = w.threeDAxSelection
    /\ threeDPlotLegendButtons' = w.threeDPlotLegendButtons
    /\ clearCalibrationBtn' = w.clearCalibrationBtn
    /\ histogram' = w.histogram
    /\ tableWidget' = w.tableWidget
    /\ exception' = w.exc

Calibrate ==
    /\ ~crashed
    /\ Len(df) < MaxRecords
    /\ total_calibration_counter < MaxCalibrations
    /\ \/ Finish(calibrate(World, FALSE, [ok |-> FALSE, val |-> <<>>]))
       \/ \E acq \in getMeasurement(serial) : Finish(calibrate(World, TRUE, acq))
    /\ UNCHANGED edits

ClearCalibration ==
    /\ ~crashed
    /\ clearCalibrationBtn
    /\ Finish(clearCalibration(World))
    /\ UNCHANGED edits

TakeRegularMeasurement ==
    /\ ~crashed
    /\ Len(df) < MaxRecords
    /\ \E acq \in getMeasurement(serial), name \in SampleNames,
          material \in SampleMaterials, color \in SampleColors :
         \E button \in IF NoCalibrationGuard(World) THEN BOOLEAN ELSE {TRUE} :
            Finish(takeRegularMeasurement(World, button, acq, name, material, color))
    /\ UNCHANGED edits

LoadDataset ==
    /\ ~crashed
    /\ \E new_df \in Datasets :
         \E sure, really \in IF Len(df) > 0 THEN BOOLEAN ELSE {TRUE} :
            Finish(loadDataset(World, new_df, sure, really))
    /\ UNCHANGED edits

EditItem ==
    /\ ~crashed
    /\ edits < MaxEdits
    /\ \E row \in 0..(Len(table) - 1), column \in 0..2 :
         \E text \in EditTexts(column) :
            Finish(editItem(World, row, column, text))
    /\ edits' = edits + 1

ThreeDPlotClear ==
    /\ ~crashed
    /\ Finish(threeDPlotClear(World))
    /\ UNCHANGED edits

TwoDPlotClear ==
    /\ ~crashed
    /\ Finish(twoDPlotClear(World))
    /\ UNCHANGED edits

ThreeDDefaultAxes ==
    /\ ~crashed
    /\ edits < MaxEdits
    /\ Finish(threeDDefaultAxes(World))
    /\ edits' = edits + 1

\* the user picks an item of one of the three axis combo boxes
ThreeDAxSelect ==
    /\ ~crashed
    /\ edits < MaxEdits
    /\ \E axis \in {"X", "Y", "Z"}, text \in AxisTexts :
            Finish(setCurrentText(World, axis, text))
    /\ edits' = edits + 1

\* PsPlot.serialConnect: the port opens, or it does not and self.serial is None
SerialConnect ==
    /\ ~crashed /\ edits < MaxEdits
    /\ \E opened \in BOOLEAN :
            Finish([World EXCEPT !.serial = opened])
    /\ edits' = edits + 1

\* the user clicks a legend button of the 3-D plot
LegendButtonClicked ==
    /\ ~crashed
    /\ \E name \in LegendTexts : Finish(legendButtonClicked(World, name))
    /\ UNCHANGED edits

Next ==
    \/ Calibrate
    \/ ClearCalibration
    \/ TakeRegularMeasurement
    \/ LoadDataset
    \/ EditItem
    \/ ThreeDPlotClear
    \/ TwoDPlotClear
    \/ ThreeDDefaultAxes
    \/ ThreeDAxSelect
    \/ SerialConnect

Spec == Init /\ [][Next]_vars

\* sessions without a device in which the user also clicks legend buttons
InitPlot == Init /\ serial = FALSE

NextPlot ==
    \/ Calibrate
    \/ ClearCalibration
    \/ TakeRegularMeasurement
    \/ ThreeDPlotClear
    \/ ThreeDDefaultAxes
    \/ ThreeDAxSelect
    \/ LegendButtonClicked

SpecPlot == InitPlot /\ [][NextPlot]_vars

----------------------------------------------------------------------------
(* Sessions of the classification view without a device.  The window     *)
(* stores each regular capture and then has the Histogram plot it.       *)

\* what predict_proba may return: thousandths for each label of classes_
Predictions ==
    {<<1000, 0, 0>>, <<500, 500, 0>>, <<600, 300, 100>>, <<0, 1, 999>>, <<335, 335, 330>>}

HistogramCapture ==
    /\ ~crashed
    /\ Len(df) < MaxRecords
    /\ \E acq \in getMeasurement(serial), name \in SampleNames, material \in SampleMaterials :
         \E color \in SampleColors, proba \in Predictions :
            Finish(Histogram_plot(addMeasurement(World, acq.val, name, material, color), proba))
    /\ UNCHANGED edits

SortingSelectionChanged ==
    /\ ~crashed
    /\ \E button \in {"default", "by_score"}, proba \in Predictions :
         Finish(Histogram_sorting_selection_changed(World, button, proba))
    /\ UNCHANGED edits

HistogramDisable ==
    /\ ~crashed
    /\ \E proba \in Predictions : Finish(Histogram_disable(World, proba))
    /\ UNCHANGED edits

HistogramClear ==
    /\ ~crashed
    /\ Finish(Histogram_clear(World))
    /\ UNCHANGED edits

NextHistogram ==
    \/ Calibrate
    \/ HistogramCapture
    \/ SortingSelectionChanged
    \/ HistogramDisable
    \/ HistogramClear

SpecHistogram == InitPlot /\ [][NextHistogram]_vars

----------------------------------------------------------------------------
(* Sessions of the table widget: rows are appended and the table is cleared *)

TableAppend ==
    /\ ~crashed
    /\ Len(tableWidget.items) < MaxTableRows
    /\ tableWidget._calibration_counter <= MaxCalibrations
    /\ \E name \in SampleNames, material \in SampleMaterials, color \in SampleColors :
         \E calibrated_measurement \in BOOLEAN :
            Finish(Table_append(World, name, material, color, calibrated_measurement))
    /\ UNCHANGED edits

TableClear ==
    /\ ~crashed
    /\ Finish(Table_clear(World))
    /\ UNCHANGED edits

NextTable == TableAppend \/ TableClear

SpecTable == InitPlot /\ [][NextTable]_vars

----------------------------------------------------------------------------
(* Properties.  A handler is a function of the state, so what a handler    *)
(* would do in a reachable state is a predicate of that state.              *)

\* the inputs of a regular capture in the current state
CaptureInputs ==
    {[acq |-> acq, name |-> name, material |-> material, color |-> color] :
        acq \in getMeasurement(serial), name \in SampleNames,
        material \in SampleMaterials, color \in SampleColors}

\* a regular capture in the current state, the warning answered with button
RegularCapture(button, in) ==
    takeRegularMeasurement(World, button, in.acq, in.name, in.material, in.color)

\* C1: a regular capture started while the baseline is absent and the
\* warning has not been overridden earlier shows the NoCalibrationWarning,
\* and when the user does not override it acquires no sample and stores no
\* record.
C1_WarningWhileBaselineAbsent ==
    (~crashed /\ ~baseline.some /\ ~overwrite_no_callibration_warning) =>
        \A in \in CaptureInputs :
            LET w == RegularCapture(FALSE, in)
            IN  /\ "NoCalibrationWarning" \in w.calls
                /\ "getMeasurement" \notin w.calls
                /\ w.df = df

\* the raw, snv and normalized cells of a row of the record log
RawOf(row) == SubSeq(row, NMetaColumns + 1, NMetaColumns + NWavelengths)

SnvOf(row) == SubSeq(row, NMetaColumns + NWavelengths + 1, NMetaColumns + 2 * NWavelengths)

NormalizedOf(row) == SubSeq(row, NMetaColumns + 2 * NWavelengths + 1, Len(row))

IsRegular(row) == row[ColMeasurementType] = Str("regular")

IsCalibration(row) == row[ColMeasurementType] = Str("calibration")

\* the handler appended one record to the record log and returned
Stored(w) == w.exc = "none" /\ Len(w.df) = Len(df) + 1

Newest(frame) == frame[Len(frame)]

\* C2: the record a regular capture stores has, when a baseline is current,
\* the normalized values normalize(raw, baseline), all N of them not None,
\* and when no baseline is current N normalized values that are all None;
\* no regular record of the log is None in some normalized values and not
\* in others.
C2_RegularNormalizedPolicy ==
    /\ ~crashed =>
            \A in \in CaptureInputs :
                LET w == RegularCapture(TRUE, in)
                    norm == NormalizedOf(Newest(w.df))
                IN  Stored(w) =>
                        /\ IsRegular(Newest(w.df))
                        /\ Len(norm) = NWavelengths
                        /\ IF baseline.some
                           THEN /\ norm = normalize(in.acq.val, baseline.val).val
                                /\ \A i \in 1..Len(norm) : ~IsNone(norm[i])
                           ELSE \A i \in 1..Len(norm) : IsNone(norm[i])
    /\ \A r \in 1..Len(df) :
            IsRegular(df[r]) =>
                \/ \A i \in 1..NWavelengths : IsNone(NormalizedOf(df[r])[i])
                \/ \A i \in 1..NWavelengths : ~IsNone(NormalizedOf(df[r])[i])

\* a regular record taken after a calibration, with real normalized values
C2_Witness ==
    /\ ~crashed /\ baseline.some /\ Len(df) = 2
    /\ IsCalibration(df[1]) /\ IsRegular(df[2])
    /\ NormalizedOf(df[2]) = normalize(SampleB, baseline.val).val
    /\ \E i \in 1..NWavelengths : NormalizedOf(df[2])[i].k = "f"

\* C3: the record a calibration capture stores has the measurement type
\* calibration and N normalized values that are all 1.
C3_CalibrationRecordAllOnes ==
    ~crashed =>
        \A acq \in getMeasurement(serial) :
            LET w == calibrate(World, TRUE, acq)
            IN  Stored(w) =>
                    /\ IsCalibration(Newest(w.df))
                    /\ NormalizedOf(Newest(w.df)) = List([i \in 1..NWavelengths |-> Float(1)])

\* the first record of the session is the one of a calibration capture
C3_Witness ==
    /\ ~crashed /\ current_calibration_counter = 1 /\ Len(df) = 1
    /\ IsCalibration(df[1])
    /\ NormalizedOf(df[1]) = List([i \in 1..NWavelengths |-> Float(1)])
    /\ baseline.some /\ RawOf(df[1]) = List([i \in 1..NWavelengths |-> Float(baseline.val[i])])

\* C4: a confirmed calibrate sets the baseline to the sample it acquired and
\* adds exactly one to the session counter and to the lifetime counter; a
\* calibrate the user does not confirm changes none of the three.
C4_CalibrateSetsBaselineAndCounters ==
    ~crashed =>
        /\ \A acq \in getMeasurement(serial) :
                LET w == calibrate(World, TRUE, acq)
                IN  acq.ok =>
                        /\ w.baseline = Some(acq.val)
                        /\ w.current_calibration_counter = current_calibration_counter + 1
                        /\ w.total_calibration_counter = total_calibration_counter + 1
        /\ \A acq \in getMeasurement(serial) :
                LET w == calibrate(World, FALSE, acq)
                IN  /\ w.baseline = baseline
                    /\ w.current_calibration_counter = current_calibration_counter
                    /\ w.total_calibration_counter = total_calibration_counter

\* the second calibration of a session has replaced the baseline of the first
C4_Witness ==
    /\ ~crashed /\ current_calibration_counter = 2 /\ total_calibration_counter = 2
    /\ Len(df) = 2 /\ baseline.some
    /\ RawOf(df[2]) = List([i \in 1..NWavelengths |-> Float(baseline.val[i])])
    /\ RawOf(df[1]) # RawOf(df[2])

\* C5: clear calibration makes the baseline absent and leaves the session
\* counter, the lifetime counter, the record log and the series index as
\* they are.
C5_ClearCalibrationFrame ==
    ~crashed =>
        LET w == clearCalibration(World)
        IN  /\ ~w.baseline.some
            /\ w.current_calibration_counter = current_calibration_counter
            /\ w.total_calibration_counter = total_calibration_counter
            /\ w.df = df
            /\ w.threeDUniqueSeries = threeDUniqueSeries

\* the calibration of this session has been cleared: the counters still
\* count it, its record is still in the log
C5_Witness ==
    /\ ~crashed /\ ~baseline.some
    /\ current_calibration_counter = 1 /\ total_calibration_counter = 1
    /\ Len(df) = 1 /\ IsCalibration(df[1])

\* the cells the user can edit, and what the user can type into them
EditInputs ==
    {[row |-> row, column |-> column, text |-> text] :
        row \in 0..(Len(table) - 1), column \in 0..2, text \in {"s2", "PVC", "foo", "blue"}}

\* the dataset loads the user can ask for, with the answers to the warnings
LoadInputs ==
    {[new_df |-> new_df, sure |-> sure, really |-> really] :
        new_df \in Datasets, sure \in BOOLEAN, really \in BOOLEAN}

Load(in) == loadDataset(World, in.new_df, in.sure, in.really)

\* the load read the file and accepted its columns
Accepted(w) == "read_csv" \in w.calls /\ "critical" \notin w.calls

\* the handlers that are neither clear calibration nor a dataset load keep
\* a current baseline current
OthersKeepBaseline ==
    /\ \A acq \in getMeasurement(serial), button \in BOOLEAN :
            calibrate(World, button, acq).baseline.some
    /\ \A in \in CaptureInputs, button \in BOOLEAN :
            RegularCapture(button, in).baseline = baseline
    /\ \A in \in EditInputs :
            editItem(World, in.row, in.column, in.text).baseline = baseline
    /\ threeDPlotClear(World).baseline = baseline
    /\ twoDPlotClear(World).baseline = baseline

\* C6, as claimed: the baseline is absent until the first confirmed
\* calibration, and no handler other than clear calibration (further
\* calibration, regular capture, edit, series clear, plot clear, dataset
\* load) makes a current baseline absent.
C6_OnlyClearMakesBaselineAbsent ==
    /\ total_calibration_counter = 0 => ~baseline.some
    /\ (~crashed /\ baseline.some) =>
            /\ OthersKeepBaseline
            /\ \A in \in LoadInputs : Load(in).baseline.some

\* C6, amended: the baseline is absent until the first confirmed
\* calibration, and a current baseline becomes absent only by clear
\* calibration or by a dataset load that reads a file with the expected
\* columns; a load that is declined or rejected keeps it.
C6_OnlyClearOrLoadMakesBaselineAbsent ==
    /\ total_calibration_counter = 0 => ~baseline.some
    /\ (~crashed /\ baseline.some) =>
            /\ OthersKeepBaseline
            /\ ~clearCalibration(World).baseline.some
            /\ \A in \in LoadInputs :
                    LET w == Load(in)
                    IN  IF Accepted(w) THEN ~w.baseline.some ELSE w.baseline = baseline

\* a calibrated session in which a record was taken and whose next dataset
\* load makes the baseline absent
C6_Witness ==
    /\ ~crashed /\ baseline.some /\ Len(df) = 2 /\ IsRegular(df[2])
    /\ \E in \in LoadInputs : Accepted(Load(in)) /\ ~Load(in).baseline.some

\* C7: calibrating again and clearing the calibration change no record
\* that is already in the record log and no row of the series index.
C7_StoredRecordsKeepTheirValues ==
    ~crashed =>
        /\ \A acq \in getMeasurement(serial) :
                LET w == calibrate(World, TRUE, acq)
                IN  /\ Len(w.df) >= Len(df)
                    /\ SubSeq(w.df, 1, Len(df)) = df
                    /\ w.threeDUniqueSeries = threeDUniqueSeries
        /\ clearCalibration(World).df = df
        /\ clearCalibration(World).threeDUniqueSeries = threeDUniqueSeries

\* a record taken without a baseline, all None, followed by a calibration
C7_Witness ==
    /\ ~crashed /\ baseline.some /\ Len(df) = 2
    /\ IsRegular(df[1]) /\ \A i \in 1..NWavelengths : IsNone(NormalizedOf(df[1])[i])
    /\ IsCalibration(df[2])

\* the measurement type, timestamp, raw, snv and normalized cells of a row
FixedFields(row) == SubSeq(row, ColMeasurementType, Len(row))

\* frame holds the records of old, unchanged, at the same places
Keeps(frame, old) == Len(frame) >= Len(old) /\ SubSeq(frame, 1, Len(old)) = old

\* C8: no capture, calibration, clear or plot handler changes a record that
\* is in the record log; the records a dataset load puts into the log keep
\* the measurement type, timestamp, raw, snv and normalized values they
\* were loaded with while the load fills the table; a user edit of a name,
\* material or color cell changes that one cell of that one record only.
C8_RecordsAppendOnly ==
    ~crashed =>
        /\ \A acq \in getMeasurement(serial) : Keeps(calibrate(World, TRUE, acq).df, df)
        /\ \A in \in CaptureInputs : Keeps(RegularCapture(TRUE, in).df, df)
        /\ clearCalibration(World).df = df
        /\ threeDPlotClear(World).df = df
        /\ twoDPlotClear(World).df = df
        /\ \A in \in LoadInputs :
                LET w == Load(in)
                IN  IF Accepted(w)
                    THEN /\ Len(w.df) = Len(in.new_df.rows)
                         /\ \A r \in 1..Len(w.df) :
                                FixedFields(w.df[r]) = FixedFields(in.new_df.rows[r])
                    ELSE w.df = df
        /\ \A in \in EditInputs :
                LET w == editItem(World, in.row, in.column, in.text)
                IN  /\ Len(w.df) = Len(df)
                    /\ \A r \in 1..Len(df) : \A c \in 1..Len(df[r]) :
                            (r # in.row + 1 \/ c # in.column + 1) => w.df[r][c] = df[r][c]

\* the core of the session: baseline, counters, record log, series index
Core(w) ==
    <<w.baseline, w.current_calibration_counter, w.total_calibration_counter, w.df,
      w.threeDUniqueSeries>>

RECURSIVE SeriesRows(_)
\* the number of data rows in a sequence of entries
SeriesRows(ids) == IF ids = <<>> THEN 0 ELSE Len(Head(ids).data) + SeriesRows(Tail(ids))

RECURSIVE StoreRows(_)
\* the number of data rows in the series index
StoreRows(series) ==
    IF series = <<>> THEN 0 ELSE SeriesRows(Head(series).ids) + StoreRows(Tail(series))

\* C9: a calibration or regular capture either returns with its record
\* appended to the record log, or leaves baseline, both counters, record
\* log and series index exactly as they were; the series index gains a row
\* only together with the record log.
C9_CaptureAllOrNothing ==
    ~crashed =>
        /\ \A acq \in getMeasurement(serial) :
                LET w == calibrate(World, TRUE, acq)
                IN  /\ Stored(w) \/ Core(w) = Core(World)
                    /\ StoreRows(w.threeDUniqueSeries) > StoreRows(threeDUniqueSeries)
                            => Len(w.df) = Len(df) + 1
        /\ \A in \in CaptureInputs :
                LET w == RegularCapture(TRUE, in)
                IN  /\ Stored(w) \/ Core(w) = Core(World)
                    /\ StoreRows(w.threeDUniqueSeries) > StoreRows(threeDUniqueSeries)
                            => Len(w.df) = Len(df) + 1

\* C10: with a device connected, getMeasurement returns the numbers of a
\* well-formed response line in order, empty pieces discarded, and fails on
\* a timeout or a malformed line: it never returns a sample that has not
\* one value per wavelength.
C10_AcquisitionReturnsSampleOrFails ==
    serial =>
        /\ ParseLine(LineA) = [ok |-> TRUE, val |-> SampleA]
        /\ ParseLine(LineB) = [ok |-> TRUE, val |-> SampleB]
        /\ ParseLine(LineEmptyPiece) = [ok |-> TRUE, val |-> SampleA]
        /\ ~ParseLine(LineMalformed).ok
        /\ ~ParseLine(LineTimeout).ok
        /\ \A acq \in getMeasurement(serial) : acq.ok => Len(acq.val) = NWavelengths

\* C11: a calibration capture that stores its record appends a calibration
\* record to the record log and adds one row to the series index.
C11_CalibrationAddsSeriesRow ==
    ~crashed =>
        \A acq \in getMeasurement(serial) :
            LET w == calibrate(World, TRUE, acq)
            IN  Stored(w) =>
                    /\ IsCalibration(Newest(w.df))
                    /\ StoreRows(w.threeDUniqueSeries) = StoreRows(threeDUniqueSeries) + 1

\* C12: calibrate never asks the classifier, whether the user confirms or
\* not and whatever the sample: no predict_proba among its calls, no
\* "predict" among its steps.
C12_CalibrateNeverPredicts ==
    ~crashed =>
        \A acq \in getMeasurement(serial), button \in BOOLEAN :
            LET w == calibrate(World, button, acq)
            IN  /\ "predict_proba" \notin w.calls
                /\ \A i \in 1..Len(w.steps) : w.steps[i] # "predict"
                /\ ~w.predicted.some

\* a calibration capture that follows a regular capture stores its record
\* and returns
C12_Witness ==
    /\ ~crashed /\ Len(df) = 1 /\ IsRegular(df[1])
    /\ \E acq \in getMeasurement(serial) :
            LET w == calibrate(World, TRUE, acq)
            IN  Stored(w) /\ w.steps = <<"df">> /\ "question" \in w.calls

\* s is the beginning of t
IsPrefix(s, t) == Len(s) <= Len(t) /\ SubSeq(t, 1, Len(s)) = s

\* C13: a regular capture appends its record to the record log, then adds
\* it to the series index, then asks the classifier, and a step that fails
\* ends the capture: what it has done is a beginning of (log, series,
\* classifier), all of it when the capture returns.  The classifier is
\* given the raw values of the newest record, the one just appended.
C13_RegularCaptureOrder ==
    ~crashed =>
        \A in \in CaptureInputs :
            LET w == RegularCapture(TRUE, in)
            IN  /\ IsPrefix(w.steps, <<"df", "series", "predict">>)
                /\ w.exc = "none" => w.steps = <<"df", "series", "predict">>
                /\ w.predicted.some =>
                        /\ Len(w.df) = Len(df) + 1
                        /\ w.predicted.val = RawOf(Newest(w.df))
                        /\ w.predicted.val = List([i \in 1..Len(in.acq.val) |-> Float(in.acq.val[i])])

\* a second record is about to be captured, and a capture returns with the
\* classifier asked about that record and not about the first
C13_Witness ==
    /\ ~crashed /\ Len(df) = 1
    /\ \E in \in CaptureInputs :
            LET w == RegularCapture(TRUE, in)
            IN  /\ w.exc = "none" /\ w.steps = <<"df", "series", "predict">>
                /\ w.predicted.val = RawOf(w.df[2]) /\ w.predicted.val # RawOf(w.df[1])

\* what the handlers other than a regular capture leave of the current state
OtherHandlerResults ==
    {calibrate(World, button, acq) : button \in BOOLEAN, acq \in getMeasurement(serial)}
    \cup {clearCalibration(World), threeDPlotClear(World), twoDPlotClear(World),
          threeDDefaultAxes(World)}
    \cup {Load(in) : in \in LoadInputs}
    \cup {editItem(World, in.row, in.column, in.text) : in \in EditInputs}
    \cup {setCurrentText(World, axis, text) : axis \in {"X", "Y", "Z"}, text \in AxisTexts}

\* C14: once the user has accepted the no-calibration warning, the override
\* stays set whatever handler runs, no regular capture shows the warning
\* again, every regular capture goes on to acquire, and one taken without a
\* baseline whose sample has a value per wavelength appends a record whose
\* normalized values are all None.
C14_OverrideIsOneTime ==
    (~crashed /\ overwrite_no_callibration_warning) =>
        /\ \A w \in OtherHandlerResults : w.overwrite_no_callibration_warning
        /\ \A in \in CaptureInputs, button \in BOOLEAN :
                LET w == RegularCapture(button, in)
                IN  /\ w.overwrite_no_callibration_warning
                    /\ "NoCalibrationWarning" \notin w.calls
                    /\ "getMeasurement" \in w.calls
                    /\ (~baseline.some /\ in.acq.ok /\ Len(in.acq.val) = NWavelengths) =>
                            /\ Len(w.df) = Len(df) + 1
                            /\ IsRegular(Newest(w.df))
                            /\ NormalizedOf(Newest(w.df))
                                    = List([i \in 1..NWavelengths |-> NoneCell])

\* the warning was accepted for the first record of the session and there
\* is still no baseline: the next capture is one without a baseline
C14_Witness ==
    /\ ~crashed /\ overwrite_no_callibration_warning /\ ~baseline.some
    /\ current_calibration_counter = 0 /\ Len(df) = 1 /\ IsRegular(df[1])
    /\ \E in \in CaptureInputs : Len(RegularCapture(FALSE, in).df) = 2

\* the handlers that end with a call of plotThreeD, and what they leave of
\* the current state when that call is reached: a regular capture whose
\* record was indexed and drawn in the 2-D plot, a dataset load that was
\* accepted and filled the table, the default axes button, a pick in an
\* axis combo box
PlotResults ==
    {w \in {RegularCapture(TRUE, in) : in \in CaptureInputs} :
        Len(w.steps) >= 2 /\ w.exc \in {"none", "KeyError"}}
    \cup {w \in {Load(in) : in \in LoadInputs} :
            Accepted(w) /\ w.exc \in {"none", "KeyError"}}
    \cup {threeDDefaultAxes(World)}
    \cup {setCurrentText(World, axis, text) : axis \in {"X", "Y", "Z"}, text \in AxisTexts}

\* a cell without a value: None, or the NaN a None is read back as from a file
IsNull(c) == IsNone(c) \/ c = NaN

\* the coordinates of a data row on the three active axes of w
Coordinates(w, row) ==
    <<row[AxisIndex(w.threeDAxisVar.X)], row[AxisIndex(w.threeDAxisVar.Y)],
      row[AxisIndex(w.threeDAxisVar.Z)]>>

\* the entry is drawn with one point per data row, at the values the row
\* has on the active axes, none of them without a value
EntryRendered(w, e) ==
    /\ e.proxy /\ e.shown
    /\ Len(e.array) = Len(e.data)
    /\ \A r \in 1..Len(e.data) :
            /\ e.array[r] = Coordinates(w, e.data[r])
            /\ \A i \in 1..3 : ~IsNull(e.array[r][i])

\* the plot call returned, the three selectors are axis options and every
\* entry is drawn
Rendered(w) ==
    /\ w.exc = "none"
    /\ IsAxisOption(w.threeDAxisVar.X) /\ IsAxisOption(w.threeDAxisVar.Y)
    /\ IsAxisOption(w.threeDAxisVar.Z)
    /\ \A mi \in 1..Len(w.threeDUniqueSeries) :
            \A ii \in 1..Len(w.threeDUniqueSeries[mi].ids) :
                EntryRendered(w, w.threeDUniqueSeries[mi].ids[ii])

\* C15: a plot call returns with every record of every visible entry drawn,
\* none dropped and none drawn at a missing value, also when an entry holds
\* records without normalized values, stored by a capture or read from a
\* file: the selectors are switched to snv and the retry draws the entry.
C15_FallbackRendersEveryRecord ==
    ~crashed => \A w \in PlotResults : Rendered(w)

\* the columns of a data row of the series index that hold the normalized
\* values: raw, snv and normalized, NWavelengths each
NormalizedCells(row) == SubSeq(row, 2 * NWavelengths + 1, 3 * NWavelengths)

\* some entry of the series index holds a record without normalized values
HasNullRecord(w) ==
    \E mi \in 1..Len(w.threeDUniqueSeries) :
        \E ii \in 1..Len(w.threeDUniqueSeries[mi].ids) :
            \E r \in 1..Len(w.threeDUniqueSeries[mi].ids[ii].data) :
                \A i \in 1..NWavelengths :
                    IsNull(NormalizedCells(w.threeDUniqueSeries[mi].ids[ii].data[r])[i])

IsNormalizedAxis(a) == a.sfx = <<"_norm">>

\* C16: after a plot call has returned, if an entry holds a record without
\* normalized values then none of the three active axes is a normalized
\* selector.
C16_NoNormalizedAxisOverNullRecord ==
    ~crashed =>
        \A w \in PlotResults :
            w.exc = "none" /\ HasNullRecord(w) =>
                /\ ~IsNormalizedAxis(w.threeDAxisVar.X)
                /\ ~IsNormalizedAxis(w.threeDAxisVar.Y)
                /\ ~IsNormalizedAxis(w.threeDAxisVar.Z)

\* the items of the three axis combo boxes (self.threeDAxisOptions)
threeDAxisOptions ==
    {Axis(wavelengths[i], sfx) : i \in 1..NWavelengths, sfx \in {<<>>, <<"_snv">>, <<"_norm">>}}

RECURSIVE SwitchedTimes(_, _)
\* the selector after k rows with a None on an axis have rewritten it
SwitchedTimes(a, k) == IF k = 0 THEN a ELSE SwitchedTimes(SwitchToSnv(a), k - 1)

\* C17: the fallback maps a normalized selector to the snv selector of the
\* same wavelength and leaves a raw and an snv selector as they are; for
\* every selector and every number of rows with a None, the rewritten
\* selector is an item of the axis combo boxes.
C17_FallbackMapsIntoAxisOptions ==
    \A a \in threeDAxisOptions \cup {threeDAxisVar.X, threeDAxisVar.Y, threeDAxisVar.Z} :
        /\ IsNormalizedAxis(a) => SwitchToSnv(a) = Axis(a.nm, <<"_snv">>)
        /\ ~IsNormalizedAxis(a) => SwitchToSnv(a) = a
        /\ \A k \in 1..MaxRecords : IsAxisOption(SwitchedTimes(a, k))

\* self.threeDUniqueSeries[material][name] in w, an entry without data when
\* the index has none for the pair
EntryOf(w, material, name) ==
    LET mi == KeyIndex(Materials(w.threeDUniqueSeries), Str(material))
        ii == IF mi = 0 THEN 0
              ELSE KeyIndex(Ids(w.threeDUniqueSeries[mi].ids), Str(name))
    IN  IF mi = 0 \/ ii = 0 THEN NewEntry(Str(name))
        ELSE w.threeDUniqueSeries[mi].ids[ii]

\* no data row of the entry lacks a value on an active axis of w
NoNullOnAxes(w, e) ==
    \A r \in 1..Len(e.data) : \A i \in 1..3 : ~IsNull(Coordinates(w, e.data[r])[i])

\* the points of the entry are the coordinates of its data rows on the active
\* axes of w, one per row, in the order of the rows
PointsInOrder(w, e) ==
    /\ Len(e.array) = Len(e.data)
    /\ \A r \in 1..Len(e.data) : e.array[r] = Coordinates(w, e.data[r])

\* C18: a regular capture that is stored puts its record behind the k - 1
\* records its material and name already have in the series index, and when
\* none of the k records lacks a value on an active axis the plot holds
\* exactly k points for the entry, the coordinates of the records in the
\* order they were added.
C18_PointsInInsertionOrder ==
    ~crashed =>
        \A in \in CaptureInputs :
            LET w == RegularCapture(TRUE, in)
                old == EntryOf(World, in.material, in.name)
                new == EntryOf(w, in.material, in.name)
            IN  Stored(w) =>
                    /\ Len(new.data) = Len(old.data) + 1
                    /\ SubSeq(new.data, 1, Len(old.data)) = old.data
                    /\ Newest(new.data) = SubSeq(Newest(w.df), NMetaColumns + 1, Len(df_header))
                    /\ NoNullOnAxes(w, new) => PointsInOrder(w, new)

\* an entry of two different records, both with values on the active axes,
\* drawn as two points
C18_Witness ==
    /\ ~crashed
    /\ \E m \in SampleMaterials, n \in SampleNames :
            LET e == EntryOf(World, m, n)
            IN  /\ Len(e.data) = 2 /\ e.data[1] # e.data[2]
                /\ Coordinates(World, e.data[1]) # Coordinates(World, e.data[2])
                /\ NoNullOnAxes(World, e)
                /\ PointsInOrder(World, e)

\* the names and materials a record can be captured or loaded with
SeriesKeys == {<<m, n>> : m \in SampleMaterials \cup {"foo"}, n \in {"", "s1", "s2"}}

\* captures with two names under one material and one name under two
\* materials, with the samples the device can return now
KeyedCaptureInputs ==
    {[acq |-> acq, name |-> key[2], material |-> key[1], color |-> ""] :
        acq \in getMeasurement(serial),
        key \in {<<"PET", "s1">>, <<"PET", "s2">>, <<"unknown", "s1">>}}

\* the number of records the series index of w holds for the key
EntryLength(w, key) == Len(EntryOf(w, key[1], key[2]).data)

NoDuplicates(keys) == \A i, j \in 1..Len(keys) : keys[i] = keys[j] => i = j

\* C19: the series index holds one entry per material and name; a regular
\* capture that is stored lengthens the entry of its material and name by
\* one and no other entry, a calibration lengthens none, and the clear of
\* the 3-D plot leaves no entry: an entry's length is the number of regular
\* records captured with its material and name since the last clear.
C19_OneEntryPerMaterialAndName ==
    ~crashed =>
        /\ NoDuplicates(Materials(threeDUniqueSeries))
        /\ \A mi \in 1..Len(threeDUniqueSeries) :
                NoDuplicates(Ids(threeDUniqueSeries[mi].ids))
        /\ \A in \in KeyedCaptureInputs :
                LET w == RegularCapture(TRUE, in)
                IN  Stored(w) =>
                        \A key \in SeriesKeys :
                            EntryLength(w, key) = EntryLength(World, key)
                                + (IF key = <<in.material, in.name>> THEN 1 ELSE 0)
        /\ \A button \in BOOLEAN, acq \in getMeasurement(serial) :
                LET w == calibrate(World, button, acq)
                IN  w.exc = "none" =>
                        \A key \in SeriesKeys : EntryLength(w, key) = EntryLength(World, key)
        /\ LET w == threeDPlotClear(World)
           IN  w.exc = "none" => \A key \in SeriesKeys : EntryLength(w, key) = 0

\* two entries under PET, of the names s1 and s2, and a capture of PET and
\* s1 that lengthens the first and not the second
C19_Witness ==
    /\ ~crashed
    /\ EntryLength(World, <<"PET", "s1">>) = 1
    /\ EntryLength(World, <<"PET", "s2">>) = 1
    /\ \E in \in CaptureInputs :
            LET w == RegularCapture(TRUE, in)
            IN  /\ Stored(w) /\ in.material = "PET" /\ in.name = "s1"
                /\ EntryLength(w, <<"PET", "s1">>) = 2
                /\ EntryLength(w, <<"PET", "s2">>) = 1

\* material texts: the allowed ones, the empty one and some that are neither
MaterialTexts ==
    Range(threeDPlotAllowedMaterials) \cup Range(default_sample_materials)
    \cup {"", "foo", "pet", "Other"}

\* the materials of the records of the record log and the keys of the
\* series index
MaterialsInUse ==
    {df[i][ColPlasticType] : i \in 1..Len(df)} \cup Range(Materials(threeDUniqueSeries))

\* C20: the legend button of a material is a function of its text alone: an
\* allowed material has its own button, the empty text the button unknown,
\* every other text the button other; resolving the resolved name again
\* gives the same button, and every material of a record or of the series
\* index has exactly one button, one of the allowed materials.
C20_MaterialNameIsTotal ==
    /\ \A t \in MaterialTexts :
            /\ t \in Range(threeDPlotAllowedMaterials) => MaterialName(Str(t)) = t
            /\ t = "" => MaterialName(Str(t)) = "unknown"
            /\ (t \notin Range(threeDPlotAllowedMaterials) /\ t # "") =>
                    MaterialName(Str(t)) = "other"
            /\ MaterialName(Str(MaterialName(Str(t)))) = MaterialName(Str(t))
    /\ \A m \in MaterialsInUse :
            /\ MaterialName(m) \in Range(threeDPlotAllowedMaterials)
            /\ MaterialName(Str(MaterialName(m))) = MaterialName(m)

\* a record of a material that is not allowed, which resolves to other,
\* next to an entry of PET, which is drawn under its own button
C20_Witness ==
    /\ ~crashed
    /\ Str("spectralon") \in MaterialsInUse
    /\ MaterialName(Str("spectralon")) = "other"
    /\ EntryOf(World, "PET", "s1").proxy
    /\ MaterialName(Str("PET")) = "PET"

----------------------------------------------------------------------------
(* The calls of plotThreeD *)

\* the state in which a regular capture that has acquired and stored its
\* sample and drawn it in the 2-D plot calls plotThreeD
BeforeCapturePlot(in) ==
    plotTwoD(
        addMeasurement(
            Acquire([World EXCEPT !.overwrite_no_callibration_warning =
                                        @ \/ NoCalibrationGuard(World)],
                    in.acq),
            in.acq.val, in.name, in.material, in.color),
        Some(SNV_transform(in.acq.val)))

\* the calls of plotThreeD the handlers make in the current state: pre is
\* the state the call starts in, axis_changed its argument
PlotCalls ==
    {[pre |-> BeforeCapturePlot(in), axis_changed |-> FALSE] : in \in CaptureInputs}
    \cup {[pre |-> [World EXCEPT !.threeDPlotLegendButtons =
                        IF name \in @ THEN @ \ {name} ELSE @ \cup {name}],
           axis_changed |-> name \notin threeDPlotLegendButtons] : name \in LegendTexts}
    \cup {c \in {[pre |-> [World EXCEPT !.threeDAxSelection[axis] = text,
                                       !.threeDAxisVar[axis] = text],
                  axis_changed |-> TRUE] : axis \in {"X", "Y", "Z"}, text \in AxisTexts} :
            c.pre.threeDAxSelection # threeDAxSelection}

\* the array of the entry that plotThreeD starts with: an entry without a
\* proxy gets one with an empty array
ArrayBefore(e) == IF e.proxy THEN e.array ELSE <<>>

EntriesOf(w, name) ==
    UNION {Range(w.threeDUniqueSeries[mi].ids) :
            mi \in {m \in 1..Len(w.threeDUniqueSeries) :
                        MaterialName(w.threeDUniqueSeries[m].material) = name}}

\* the data rows of every entry of the series index, by material and id
StoredData(w) ==
    UNION {{<<w.threeDUniqueSeries[mi].material, e.id, e.data>> :
                e \in Range(w.threeDUniqueSeries[mi].ids)} :
            mi \in 1..Len(w.threeDUniqueSeries)}

\* C22: a click that unchecks a legend button takes the entries of the
\* button out of the graph and changes neither the series index's data nor
\* the record log; a capture of a material whose button is unchecked is
\* stored in the record log and in the series index; a click that checks
\* the button again returns with every entry of the button in the graph,
\* one point per record on the axes in force.
C22_HiddenEntriesKeepTheirData ==
    ~crashed =>
        /\ \A name \in LegendTexts :
                LET w == legendButtonClicked(World, name)
                IN  IF name \in threeDPlotLegendButtons
                    THEN /\ w.exc = "none"
                         /\ \A e \in EntriesOf(w, name) : ~e.shown
                         /\ StoredData(w) = StoredData(World)
                         /\ w.df = df
                    ELSE /\ w.exc = "none"
                         /\ StoredData(w) = StoredData(World)
                         /\ w.df = df
                         /\ \A e \in EntriesOf(w, name) : e.shown /\ PointsInOrder(w, e)
        /\ \A in \in CaptureInputs :
                LET w == RegularCapture(TRUE, in)
                IN  (MaterialName(Str(in.material)) \notin threeDPlotLegendButtons
                        /\ in.acq.ok /\ Len(in.acq.val) = NWavelengths) =>
                        /\ Stored(w)
                        /\ EntryLength(w, <<in.material, in.name>>)
                                = EntryLength(World, <<in.material, in.name>>) + 1
                        /\ Newest(EntryOf(w, in.material, in.name).data)
                                = SubSeq(Newest(w.df), NMetaColumns + 1, Len(df_header))

\* C23: the clear of the 3-D plot returns whatever the series index holds,
\* leaves it with the allowed materials and no entry, and changes neither
\* the baseline nor the two calibration counters nor the record log.
C23_ClearEmptiesSeriesOnly ==
    ~crashed =>
        LET w == threeDPlotClear(World)
        IN  /\ w.exc = "none"
            /\ w.threeDUniqueSeries = EmptySeries
            /\ \A mi \in 1..Len(w.threeDUniqueSeries) : w.threeDUniqueSeries[mi].ids = <<>>
            /\ w.baseline = baseline
            /\ w.current_calibration_counter = current_calibration_counter
            /\ w.total_calibration_counter = total_calibration_counter
            /\ w.df = df

\* the clear of a series index that holds an entry with a proxy, with a
\* baseline set and two records in the log
C23_Witness ==
    /\ ~crashed
    /\ baseline.some /\ total_calibration_counter > 0 /\ Len(df) >= 2
    /\ StoreRows(threeDUniqueSeries) >= 1
    /\ \E m \in SampleMaterials : EntryOf(World, m, "s1").proxy
    /\ threeDPlotClear(World).exc = "none"
    /\ StoreRows(threeDPlotClear(World).threeDUniqueSeries) = 0

\* every entry of the series index old is an entry of new, under the same
\* material and id, with the data rows of old first
SeriesGrows(old, new) ==
    \A mi \in 1..Len(old) :
        \E mj \in 1..Len(new) :
            /\ new[mj].material = old[mi].material
            /\ \A e \in Range(old[mi].ids) :
                    \E f \in Range(new[mj].ids) : f.id = e.id /\ IsPrefix(e.data, f.data)

\* C24: every step that is not the clear of the 3-D plot, a capture, a
\* calibration, a clear of the calibration, an axis pick, the default axes
\* button or a click on a legend button, with or without the axis fallback,
\* keeps every entry of the series index and the data rows it holds, and
\* only adds entries or appends rows.
C24_EntriesOnlyGrowBetweenClears ==
    [][SeriesGrows(threeDUniqueSeries, threeDUniqueSeries') \/ ThreeDPlotClear]_vars

\* an entry of two records after an axis was switched, while a legend button
\* is unchecked
C24_Witness ==
    /\ ~crashed
    /\ \E key \in SeriesKeys : EntryLength(World, key) = 2
    /\ threeDAxisVar.X # threeDAxisVarXDefault
    /\ threeDPlotLegendButtons # Range(threeDPlotAllowedMaterials)

\* files whose columns are not those of df_header: one without the snv
\* columns, one with a column more, one with two columns in the other
\* order and a record, one without columns
MismatchedDatasets ==
    {DatasetOtherColumns,
     [columns |-> Append(df_header, "Notes"), rows |-> <<>>],
     [columns |-> <<"PlasticType", "Name">> \o SubSeq(df_header, 3, Len(df_header)),
      rows |-> <<CsvRow(RecordRow("PVC", "s3", "", "regular", SampleA,
                                  List([i \in 1..NWavelengths |-> NoneCell])))>>],
     [columns |-> <<>>, rows |-> <<>>]}

----------------------------------------------------------------------------
(* The classification view *)

\* the plots of the Histogram in by_score mode in the current state: the
\* click on "Sort score" and the plot of a capture while it is checked
ByScorePlots ==
    {[proba |-> proba, post |-> Histogram_sorting_selection_changed(World, "by_score", proba)] :
        proba \in Predictions}

\* the place of a label in default mode
DefaultPlace(name) == Len(clf_classes) + 1 - ClassIndex(name)

Ascending(ws) == \A i, j \in DOMAIN ws : i < j => ws[i] <= ws[j]

\* every label is shown once, beside the value of its own class
PairedWithOwnValue(h, proba) ==
    /\ Len(h.ticks) = Len(clf_classes)
    /\ Range(h.ticks) = Range(clf_classes)
    /\ \A i \in DOMAIN h.ticks : h.widths[i] = widths(proba)[DefaultPlace(h.ticks[i])]

\* labels of equal value stand in the order of default mode
TiesInDefaultOrder(h) ==
    \A i, j \in DOMAIN h.ticks :
        (i < j /\ h.widths[i] = h.widths[j]) => DefaultPlace(h.ticks[i]) < DefaultPlace(h.ticks[j])

C26_AscendingAndPaired ==
    \A c \in ByScorePlots :
        (~crashed /\ ~histogram.disableBtn /\ c.post.exc = "none") =>
            /\ Ascending(c.post.histogram.widths)
            /\ PairedWithOwnValue(c.post.histogram, c.proba)

\* C26: in by_score mode the displayed pairs are sorted ascending by value,
\* every label stays paired with its own value, and labels of equal value
\* keep the relative order they have in default mode.
C26_ByScoreIsStableSort ==
    \A c \in ByScorePlots :
        (~crashed /\ ~histogram.disableBtn /\ c.post.exc = "none") =>
            /\ Ascending(c.post.histogram.widths)
            /\ PairedWithOwnValue(c.post.histogram, c.proba)
            /\ TiesInDefaultOrder(c.post.histogram)

AllZero(ws) == \A i \in DOMAIN ws : ws[i] = 0

\* what a capture, a click on a sort button and a click on "Clear graph"
\* leave when they happen in the current state
PlotsAndClears ==
    {Histogram_plot(addMeasurement(World, in.acq.val, in.name, in.material, in.color), proba) :
        in \in {c \in CaptureInputs : Len(df) < MaxRecords}, proba \in Predictions}
    \cup {Histogram_sorting_selection_changed(World, button, proba) :
            button \in {"default", "by_score"}, proba \in Predictions}
    \cup {Histogram_clear(World)}

\* C27: while the "disable" box is checked every bar is zero, and a capture,
\* a change of the sort mode or a click on "Clear graph" neither asks the
\* classifier for a prediction nor makes a bar non-zero; a non-zero bar
\* appears only with the box unchecked.
C27_DisabledShowsZeroBars ==
    histogram.disableBtn =>
        /\ AllZero(histogram.widths)
        /\ ~crashed =>
              \A post \in PlotsAndClears :
                 /\ "Histogram.predict_proba" \notin post.calls
                 /\ post.histogram.disableBtn
                 /\ AllZero(post.histogram.widths)

\* the box is checked in by_score mode, a record is stored and another
\* capture is possible
C27_Witness ==
    /\ ~crashed
    /\ histogram.disableBtn
    /\ histogram.sortBtn = "by_score"
    /\ Len(df) >= 1
    /\ Len(df) < MaxRecords

\* the plots of a capture in the current state, in the sort mode it is in
CapturePlots ==
    {[proba |-> proba,
      post |-> Histogram_plot(addMeasurement(World, in.acq.val, in.name, in.material, in.color), proba)] :
        in \in {c \in CaptureInputs : Len(df) < MaxRecords}, proba \in Predictions}

\* a displayed value next to the probability of its class, in tenths of a
\* percent: the two differ by at most one half of a percent
NearestInteger(width, tenths) ==
    /\ width \in 0..100
    /\ 10 * width - tenths <= 5
    /\ tenths - 10 * width <= 5

\* a displayed value in 0..100 that is not above the probability of its
\* class and less than one percent below it
CutOff(width, tenths) ==
    /\ width \in 0..100
    /\ 10 * width <= tenths
    /\ tenths - 10 * width < 10

C28_ValuesAreCutOff ==
    \A c \in CapturePlots :
        (~crashed /\ ~histogram.disableBtn /\ c.post.exc = "none") =>
            \A i \in DOMAIN c.post.histogram.ticks :
                CutOff(c.post.histogram.widths[i], c.proba[ClassIndex(c.post.histogram.ticks[i])])

\* C28: each displayed class value is the probability of the class scaled
\* to 0-100 and rounded to the nearest integer: it lies in 0..100 and
\* differs from the exact percentage by at most one half.
C28_ValuesRoundedToNearest ==
    \A c \in CapturePlots :
        (~crashed /\ ~histogram.disableBtn /\ c.post.exc = "none") =>
            \A i \in DOMAIN c.post.histogram.ticks :
                NearestInteger(c.post.histogram.widths[i],
                               c.proba[ClassIndex(c.post.histogram.ticks[i])])

----------------------------------------------------------------------------
(* Degenerate samples *)

AllIdentical(ys) == \A i, j \in DOMAIN ys : ys[i] = ys[j]

\* sample[i] / baseline[i] is the same number for every i
ConstantQuotient(sample, b) ==
    /\ b.some
    /\ Len(sample) = Len(b.val)
    /\ \A i \in DOMAIN b.val : b.val[i] # 0
    /\ \A i, j \in DOMAIN sample : sample[i] * b.val[j] = sample[j] * b.val[i]

HoldsNaN(ys) == \E i \in DOMAIN ys : ys[i] = NaN

StoresNaN(rows) == \E r \in DOMAIN rows : HoldsNaN(rows[r])

\* the regular captures of the current state whose sample arrived
ArrivedCaptures == {in \in CaptureInputs : in.acq.ok}

\* C29: SNV_transform never returns NaN, a capture whose values are all
\* identical or whose quotient by the baseline is constant ends with an
\* error, and no record holding NaN is stored.
C29_DegenerateSampleFails ==
    ~crashed =>
        \A in \in ArrivedCaptures :
            /\ ~HoldsNaN(SNV_transform(in.acq.val))
            /\ (AllIdentical(in.acq.val) \/ ConstantQuotient(in.acq.val, baseline)) =>
                  RegularCapture(TRUE, in).exc # "none"
            /\ ~StoresNaN(RegularCapture(TRUE, in).df)

\* the regular captures of the current state whose sample has another
\* length than the baseline
MismatchedCaptures ==
    {in \in ArrivedCaptures : baseline.some /\ Len(in.acq.val) # Len(baseline.val)}

\* the baseline, the counters, the records and the series are those of the
\* current state
PriorStateKept(post) ==
    /\ post.baseline = baseline
    /\ post.current_calibration_counter = current_calibration_counter
    /\ post.total_calibration_counter = total_calibration_counter
    /\ post.df = df
    /\ post.threeDUniqueSeries = threeDUniqueSeries

C30_FailedNormalizeKeepsState ==
    ~crashed =>
        \A in \in MismatchedCaptures :
            ~normalize(in.acq.val, baseline.val).ok =>
                /\ RegularCapture(TRUE, in).exc = "ValueError"
                /\ PriorStateKept(RegularCapture(TRUE, in))

\* C30: normalize of a sample and a baseline of different lengths fails
\* with a shape mismatch, whatever the two lengths are, and the capture
\* that failed leaves the baseline, the counters, the records and the
\* series as they were.
C30_LengthMismatchFails ==
    ~crashed =>
        \A in \in MismatchedCaptures :
            /\ ~normalize(in.acq.val, baseline.val).ok
            /\ RegularCapture(TRUE, in).exc = "ValueError"
            /\ PriorStateKept(RegularCapture(TRUE, in))

----------------------------------------------------------------------------
(* The shape of the records *)

\* the rows an entry of the series index holds
EntryRows == UNION {Range(e.data) : e \in UNION {Range(threeDUniqueSeries[mi].ids) : mi \in DOMAIN threeDUniqueSeries}}

\* C31: every record of the data frame has the five descriptive cells and
\* N raw, N snv and N normalized values, N the number of wavelengths, and
\* every row the series index holds has N raw, N snv and N normalized
\* values, whatever samples the acquisition returned.
C31_RecordsHaveNValues ==
    /\ \A r \in DOMAIN df :
          /\ Len(df[r]) = NMetaColumns + 3 * NWavelengths
          /\ Len(RawOf(df[r])) = NWavelengths
          /\ Len(SnvOf(df[r])) = NWavelengths
          /\ Len(NormalizedOf(df[r])) = NWavelengths
    /\ \A row \in EntryRows : Len(row) = 3 * NWavelengths

\* a device is connected, a record is stored and indexed, and a capture
\* has ended with the error of a sample that does not fit
C31_Witness ==
    /\ serial
    /\ exception = "ValueError"
    /\ Len(df) >= 1
    /\ EntryRows # {}

----------------------------------------------------------------------------
(* Captures without a device *)

\* the values the random noise takes
NoiseValues == UNION {Range(noise) : noise \in DummyNoise}

\* a raw vector getMeasurement makes up: N values, each a value of the
\* dummy data with noise added
IsNoisyDummy(raw) ==
    /\ Len(raw) = NWavelengths
    /\ \A i \in DOMAIN raw : \E d \in NoiseValues : raw[i] = Float(dummy_data[i] + d)

\* the raw vectors of the records
RawVectors == {RawOf(df[r]) : r \in DOMAIN df}

\* C32 as amended: without a device every capture stores a raw vector of
\* length N made of the dummy data with a noise added to each value.
C32_DummyIsNoisy == ~serial => \A raw \in RawVectors : IsNoisyDummy(raw)

\* two records captured without a device hold different raw vectors
C32_Witness == ~serial /\ ~crashed /\ Cardinality(RawVectors) >= 2

\* C32: without a device the sample substituted for a capture is one fixed
\* vector of length N: two captures yield the same raw vector.
C32_DummyIsDeterministic ==
    ~serial =>
        /\ \A raw \in RawVectors : Len(raw) = NWavelengths
        /\ Cardinality(RawVectors) <= 1

----------------------------------------------------------------------------
(* The currently_storing flag and the edits of the table *)

\* the data frame new is old with one row appended whose measured values
\* are the floats of data and SNV_transform(data): no item text is in them
RowWrittenByStoreOnly(old, new, data) ==
    /\ Len(new) = Len(old) + 1
    /\ SubSeq(new, 1, Len(old)) = old
    /\ RawOf(Newest(new)) = List([i \in 1..Len(data) |-> Float(data[i])])
    /\ SnvOf(Newest(new)) = SNV_transform(data)
    /\ \A c \in DOMAIN Newest(new) : c > NMetaColumns => Newest(new)[c].k # "str"

\* what storeMeasurement leaves in the current state, for a regular and for
\* a calibration capture
StoreResults ==
    {[data |-> in.acq.val, post |-> RegularCapture(TRUE, in)] : in \in ArrivedCaptures}
    \cup {[data |-> acq.val, post |-> calibrate(World, TRUE, acq)] :
            acq \in {a \in getMeasurement(serial) : a.ok}}

C33_StoreWritesAreNotEchoed ==
    /\ ~crashed => ~currently_storing
    /\ ~crashed =>
          \A c \in StoreResults :
              c.post.exc = "none" =>
                  /\ RowWrittenByStoreOnly(df, c.post.df, c.data)
                  /\ ~c.post.currently_storing

\* the edit of in.row, in.column has put in.text into that cell of the data
\* frame and has changed nothing else
EditPropagated(in, post) ==
    /\ post.exc = "none"
    /\ post.df = [df EXCEPT ![in.row + 1][in.column + 1] = Str(in.text)]

\* C33: the item changes storeMeasurement causes itself write nothing to
\* the data frame, currently_storing is False again after the store, and
\* every later edit of a name, material or color cell by the user is then
\* written to the data frame, once.
C33_OnlyUserEditsArePropagated ==
    /\ ~crashed => ~currently_storing
    /\ ~crashed =>
          \A c \in StoreResults :
              c.post.exc = "none" =>
                  /\ RowWrittenByStoreOnly(df, c.post.df, c.data)
                  /\ ~c.post.currently_storing
    /\ ~crashed =>
          \A in \in EditInputs : EditPropagated(in, editItem(World, in.row, in.column, in.text))

----------------------------------------------------------------------------
(* The warnings of loadDataset *)

\* C34: with records in the data frame, a load in which the user declines
\* one of the two overwrite warnings reads no file and leaves the data
\* frame, the table, the series index, the baseline and the counters as
\* they are; the data frame is replaced only after both were confirmed.
C34_DeclinedLoadChangesNothing ==
    (~crashed /\ Len(df) > 0) =>
        \A in \in LoadInputs :
            ~(in.sure /\ in.really) =>
                /\ "read_csv" \notin Load(in).calls
                /\ Load(in).exc = "none"
                /\ Load(in).df = df
                /\ Load(in).table = table
                /\ Load(in).tableRowLabels = tableRowLabels
                /\ Load(in).threeDUniqueSeries = threeDUniqueSeries
                /\ Load(in).baseline = baseline
                /\ Load(in).current_calibration_counter = current_calibration_counter
                /\ Load(in).total_calibration_counter = total_calibration_counter

\* records are stored and indexed and a baseline is present, and a
\* confirmed load of a file would replace them
C34_Witness ==
    /\ ~crashed
    /\ Len(df) > 0
    /\ baseline.some
    /\ StoreRows(threeDUniqueSeries) >= 1
    /\ \E in \in LoadInputs : in.sure /\ in.really /\ Load(in).exc = "none" /\ Load(in).df # df

----------------------------------------------------------------------------
(* The calibration counters *)

\* the number of calibration records in a data frame
CalibrationRows(frame) == Cardinality({r \in DOMAIN frame : IsCalibration(frame[r])})

\* C35: between two handlers the session counter is at least 0 and at most
\* the lifetime counter, and the lifetime counter is the number of
\* calibration records in the data frame, after any calibrations, clears,
\* regular captures and loads.
C35_CountersMatchCalibrationRows ==
    ~crashed =>
        /\ 0 <= current_calibration_counter
        /\ current_calibration_counter <= total_calibration_counter
        /\ total_calibration_counter = CalibrationRows(df)

----------------------------------------------------------------------------
(* The axis selectors *)

C36_SelectorsAgreeBetweenHandlers == ~crashed => threeDAxisVar = threeDAxSelection

\* C36: for each of the axes X, Y and Z the selector plotThreeD extracts
\* the coordinates with is the selector the combo box of the axis shows,
\* initially and after any axis changes, resets to the default axes and
\* fallbacks.
C36_PlotSelectorIsShownSelector ==
    \A axis \in {"X", "Y", "Z"} : threeDAxisVar[axis] = threeDAxSelection[axis]

----------------------------------------------------------------------------
(* What the Histogram classifies *)

\* the plots the user can cause in the current state without a capture: a
\* click on a sort button and a click on the "disable" box
UserPlots ==
    {Histogram_sorting_selection_changed(World, button, proba) :
        button \in {"default", "by_score"}, proba \in Predictions}
    \cup {Histogram_disable(World, proba) : proba \in Predictions}

C37_CapturePlotsClassifyRegularRecord ==
    ~crashed =>
        \A c \in CapturePlots :
            /\ c.post.exc # "KeyError"
            /\ "Histogram.predict_proba" \in c.post.calls =>
                  /\ IsRegular(Newest(c.post.df))
                  /\ c.post.predicted = Some(prediction_options(Newest(c.post.df)))

\* C37: Histogram.plot gives the classifier only a record that exists and
\* is a regular one: a change of the sort mode or un-ticking "disable"
\* neither reads the newest record of an empty data frame nor classifies a
\* calibration record, whatever captures and calibrations came before.
C37_ClassifiesOnlyRegularRecords ==
    ~crashed =>
        \A post \in UserPlots :
            /\ post.exc # "KeyError"
            /\ "Histogram.predict_proba" \in post.calls =>
                  /\ Len(df) > 0
                  /\ IsRegular(Newest(df))
                  /\ post.predicted = Some(prediction_options(Newest(df)))

----------------------------------------------------------------------------
(* Export and load *)

\* the file DataFrame.to_csv(fname, index_label="Reading") writes, as
\* pd.read_csv reads it back
exportCsv(frame) ==
    [columns |-> df_header, rows |-> List([r \in 1..Len(frame) |-> CsvRow(frame[r])])]

\* the window after PsPlot.__init__ without a device
FreshWorld ==
    [World EXCEPT
        !.serial = FALSE,
        !.baseline = None,
        !.current_calibration_counter = 0,
        !.total_calibration_counter = 0,
        !.overwrite_no_callibration_warning = FALSE,
        !.currently_storing = FALSE,
        !.df = <<>>,
        !.table = <<>>,
        !.tableRowLabels = <<>>,
        !.threeDUniqueSeries = EmptySeries,
        !.sample_materials = {Str(m) : m \in Range(default_sample_materials)},
        !.sample_names = {Str("")},
        !.sample_colors = {Str("")},
        !.twoDPlotHistoryDeque = <<>>,
        !.threeDAxisVar = [X |-> threeDAxisVarXDefault, Y |-> threeDAxisVarYDefualt,
                           Z |-> threeDAxisVarZDefault],
        !.threeDAxSelection = [X |-> threeDAxisVarXDefault, Y |-> threeDAxisVarYDefualt,
                               Z |-> threeDAxisVarZDefault],
        !.threeDPlotLegendButtons = Range(threeDPlotAllowedMaterials),
        !.clearCalibrationBtn = FALSE,
        !.histogram = Histogram_init,
        !.tableWidget = Table_init]

\* the session exported now and loaded into a new window
Reloaded == loadDataset(FreshWorld, exportCsv(df), TRUE, TRUE)

\* the records of new are those of old, in order, as a file holds them
SameRecords(old, new) ==
    /\ Len(new) = Len(old)
    /\ \A r \in DOMAIN old : CsvRow(new[r]) = CsvRow(old[r])

\* for every entry of a series index its material, its id and, for each of
\* its records in order, whether the normalized values are null
Footprint(series) ==
    UNION {{[material |-> CsvCell(series[mi].material),
             id |-> CsvCell(e.id),
             nulls |-> List([i \in 1..Len(e.data) |-> IsNull(e.data[i][2 * NWavelengths + 1])])] :
                e \in Range(series[mi].ids)} : mi \in DOMAIN series}

C38_ReloadKeepsRecords ==
    (~crashed /\ Len(df) > 0) => (Reloaded.exc = "none" /\ SameRecords(df, Reloaded.df))

C38_ReloadKeepsSeries ==
    (~crashed /\ Len(df) > 0) =>
        Footprint(Reloaded.threeDUniqueSeries) = Footprint(threeDUniqueSeries)

C38_ReloadKeepsSeriesOfRegularCaptures ==
    (~crashed /\ Len(df) > 0 /\ \A r \in DOMAIN df : IsRegular(df[r])) =>
        Footprint(Reloaded.threeDUniqueSeries) = Footprint(threeDUniqueSeries)

\* C38: the session exported and loaded into a new window is the session:
\* the loaded data frame holds the same records in the same order, and
\* the rebuilt series index has the same (material, id) entries with the
\* same lengths and the same null or non-null normalized values per record
\* as the index the captures built.
C38_ExportLoadRoundTrip ==
    (~crashed /\ Len(df) > 0) =>
        /\ Reloaded.exc = "none"
        /\ SameRecords(df, Reloaded.df)
        /\ Footprint(Reloaded.threeDUniqueSeries) = Footprint(threeDUniqueSeries)

----------------------------------------------------------------------------
(* The table and the data frame *)

\* the name, material and color items of table row i are the texts of
\* record i
RowShowsRecord(i) ==
    \A c \in {ColName, ColPlasticType, ColColor} : table[i][c] = TextOrEmpty(df[i][c])

C39_RegularRowsShowTheirRecord ==
    ~crashed =>
        /\ Len(table) = Len(df)
        /\ \A i \in DOMAIN df : IsRegular(df[i]) => RowShowsRecord(i)

\* C39: for every row index i the name, material and color shown in table
\* row i are those of record i of the data frame, after any regular
\* captures, calibrations and edits by the user.
C39_TableShowsRecords ==
    ~crashed =>
        /\ Len(table) = Len(df)
        /\ \A i \in DOMAIN df : RowShowsRecord(i)

----------------------------------------------------------------------------
(* The row labels *)

\* every label carries the number of its row among the rows of its kind:
\* the j-th regular row is j, the k-th calibration row is "c k"
NumbersEachKind(labels) ==
    \A i \in DOMAIN labels :
        labels[i].number =
            Cardinality({j \in 1..i : labels[j].calibration = labels[i].calibration})

C40_PsPlotLabelsNumberEachKind ==
    ~crashed => (Len(tableRowLabels) = Len(table) /\ NumbersEachKind(tableRowLabels))

C40_LabelsNumberEachKindUntilClear ==
    tableWidget._calibration_counter =
        Cardinality({i \in DOMAIN tableWidget._row_labels : tableWidget._row_labels[i].calibration})
    => NumbersEachKind(tableWidget._row_labels)

\* C40: the row labels of the Table number each kind of row separately:
\* the j-th regular row in the table is labelled j and the k-th calibration
\* row "c k", after any appends, also those after the table was cleared.
C40_LabelsNumberEachKind ==
    /\ Len(tableWidget._row_labels) = Len(tableWidget.items)
    /\ NumbersEachKind(tableWidget._row_labels)

====
